---- MODULE Spec2Model ----
(***************************************************************************)
(* kanban-tui: the Board / Column / Task data model (src/src/lib.rs), the  *)
(* JSON file storage (src/src/storage.rs), the application state machine   *)
(* (src/src/app.rs) and its keyboard dispatch (src/src/input.rs).          *)
(*                                                                         *)
(* Conventions.  A Rust String is a sequence of one-character strings.    *)
(* Option<T> is a sequence of length 0 (None) or 1 (Some).  Vec indices    *)
(* are 0-based as in the source; At(v, i) reads v[i].  Result<T, E> is     *)
(* <<"Ok", t>> or <<"Err", e>>.  Priority is the enum's discriminant      *)
(* (declaration order High, Medium, Low, None).                            *)
(***************************************************************************)
EXTENDS Integers, Sequences, FiniteSets, TLC

VARIABLES
    board,                \* App.board: the Board in memory
    selected_column,      \* App.selected_column: usize
    selected_task_index,  \* App.selected_task_index: Option<usize>
    input_mode,           \* App.input_mode: InputMode
    input_buffer,         \* App.input_buffer: String
    editing_task_id,      \* App.editing_task_id: Option<usize>
    current_board_name,   \* App.current_board_name: String
    available_boards,     \* App.available_boards: Vec<String>
    selected_board_index, \* App.selected_board_index: Option<usize>
    storage,              \* the files behind App.storage: boards/*.json, metadata.json, board.json
    now,                  \* the wall clock read by current_timestamp()
    issued,               \* history: the ids Board::add_task has returned on `board`
    last_op,              \* history: the call that produced this state and what it returned
    env,                  \* the bounds of the run: fixed by the initial state
    io_fails,             \* the environment: every file-system call fails while TRUE
    running               \* the process is alive: FALSE once it has panicked

app_vars == <<board, selected_column, selected_task_index, input_mode, input_buffer,
              editing_task_id, current_board_name, available_boards,
              selected_board_index>>

vars == <<board, selected_column, selected_task_index, input_mode, input_buffer,
          editing_task_id, current_board_name, available_boards,
          selected_board_index, storage, now, issued, last_op, env, io_fails, running>>

----------------------------------------------------------------------------
(* Option, Result, Vec and String helpers                                  *)

None == <<>>

Some(x) == <<x>>

is_some(o) == Len(o) = 1

unwrap(o) == o[1]

Ok(v) == <<"Ok", v>>

Err(e) == <<"Err", e>>

is_ok(r) == r[1] = "Ok"

At(v, i) == v[i + 1]

SetAt(v, i, x) == [v EXCEPT ![i + 1] = x]

\* Vec::remove(pos): the element at pos leaves, later elements shift down.
Vec_remove(v, pos) == SubSeq(v, 1, pos) \o SubSeq(v, pos + 2, Len(v))

\* Vec::contains
contains(v, x) == \E k \in 1..Len(v) : v[k] = x

\* Iterator::position over a Vec of tasks, for the predicate |t| t.id == task_id
position_id(tasks, task_id) ==
    LET hits == {k \in 1..Len(tasks) : tasks[k].id = task_id}
    IN  IF hits = {} THEN None
        ELSE Some((CHOOSE k \in hits : \A j \in hits : k <= j) - 1)

\* Iterator::position over a Vec<String>, for the predicate |b| b == name
position_name(names, name) ==
    LET hits == {k \in 1..Len(names) : names[k] = name}
    IN  IF hits = {} THEN None
        ELSE Some((CHOOSE k \in hits : \A j \in hits : k <= j) - 1)

\* Vec::retain(|b| b != name)
RECURSIVE retain_ne(_, _)
retain_ne(v, name) ==
    IF v = <<>> THEN <<>>
    ELSE IF Head(v) = name THEN retain_ne(Tail(v), name)
    ELSE <<Head(v)>> \o retain_ne(Tail(v), name)

\* The characters of the model's strings, by class.
Whitespace == {" "}

Alphanumeric == {"a", "d", "e", "f", "l", "t", "u", "x", "y"}

\* str::trim: leading and trailing whitespace removed.
RECURSIVE trim_start(_)
trim_start(s) ==
    IF s /= <<>> /\ Head(s) \in Whitespace THEN trim_start(Tail(s)) ELSE s

RECURSIVE trim_end(_)
trim_end(s) ==
    IF s /= <<>> /\ s[Len(s)] \in Whitespace THEN trim_end(SubSeq(s, 1, Len(s) - 1)) ELSE s

trim(s) == trim_end(trim_start(s))

\* String::pop: the last character leaves; an empty string stays empty.
pop(s) == IF s = <<>> THEN s ELSE SubSeq(s, 1, Len(s) - 1)

default_name == <<"d", "e", "f", "a", "u", "l", "t">>

----------------------------------------------------------------------------
(* Priority and Task (lib.rs)                                              *)

High == 0

Medium == 1

Low == 2

PriorityNone == 3

\* Faulty variant: High is the end of the line instead of leading back to None.
Priority_next_saturating(p) ==
    CASE p = PriorityNone -> Low
      [] p = Low -> Medium
      [] p = Medium -> High
      [] p = High -> High

Priority_next(p) ==
    CASE p = PriorityNone -> Low
      [] p = Low -> Medium
      [] p = Medium -> High
      [] p = High -> PriorityNone

current_timestamp == now

Task_new(id, title) ==
    [id |-> id, title |-> title, description |-> None, priority |-> PriorityNone,
     tags |-> <<>>, created_at |-> current_timestamp,
     updated_at |-> current_timestamp, due_date |-> None]

\* Faulty variant: an empty description is stored as Some("").
Task_set_description_keeps_empty(task, description) ==
    [task EXCEPT !.description = Some(description), !.updated_at = current_timestamp]

Task_set_description(task, description) ==
    [task EXCEPT !.description = IF description = <<>> THEN None ELSE Some(description),
                 !.updated_at = current_timestamp]

Task_cycle_priority(task) ==
    [task EXCEPT !.priority = Priority_next(task.priority),
                 !.updated_at = current_timestamp]

\* Faulty variant: the tag is pushed without looking for it in the list.
Task_add_tag_always(task, tag) ==
    IF tag /= <<>>
    THEN [task EXCEPT !.tags = Append(task.tags, tag), !.updated_at = current_timestamp]
    ELSE task

Task_add_tag(task, tag) ==
    IF ~contains(task.tags, tag) /\ tag /= <<>>
    THEN [task EXCEPT !.tags = Append(task.tags, tag), !.updated_at = current_timestamp]
    ELSE task

Task_remove_tag(task, tag) ==
    LET hits == {k \in 1..Len(task.tags) : task.tags[k] = tag}
    IN  IF hits = {} THEN task
        ELSE [task EXCEPT !.tags = Vec_remove(task.tags,
                                       (CHOOSE k \in hits : \A j \in hits : k <= j) - 1),
                          !.updated_at = current_timestamp]

Task_set_due_date(task, due_date) ==
    [task EXCEPT !.due_date = due_date, !.updated_at = current_timestamp]

Task_update_title(task, title) ==
    [task EXCEPT !.title = title, !.updated_at = current_timestamp]

----------------------------------------------------------------------------
(* Column (lib.rs)                                                         *)

Column_new(name) == [name |-> name, tasks |-> <<>>]

\* Faulty variant: the task is put in front of the others.
Column_add_task_front(column, task) == [column EXCEPT !.tasks = <<task>> \o column.tasks]

\* Faulty variant: the task is pushed twice.
Column_add_task_twice(column, task) ==
    [column EXCEPT !.tasks = Append(Append(column.tasks, task), task)]

Column_add_task(column, task) == [column EXCEPT !.tasks = Append(column.tasks, task)]

\* Faulty variant: Vec::swap_remove, the last task takes the place of the removed one.
Column_remove_task_swap(column, task_id) ==
    LET pos == position_id(column.tasks, task_id)
        n == Len(column.tasks)
    IN  IF is_some(pos)
        THEN [column |-> [column EXCEPT !.tasks =
                             IF unwrap(pos) = n - 1 THEN SubSeq(column.tasks, 1, n - 1)
                             ELSE SubSeq(SetAt(column.tasks, unwrap(pos), column.tasks[n]),
                                         1, n - 1)],
              removed |-> Some(At(column.tasks, unwrap(pos)))]
        ELSE [column |-> column, removed |-> None]

\* Returns the column after the call and the Option<Task> it returns.
Column_remove_task(column, task_id) ==
    LET pos == position_id(column.tasks, task_id)
    IN  IF is_some(pos)
        THEN [column |-> [column EXCEPT !.tasks = Vec_remove(column.tasks, unwrap(pos))],
              removed |-> Some(At(column.tasks, unwrap(pos)))]
        ELSE [column |-> column, removed |-> None]

----------------------------------------------------------------------------
(* Board (lib.rs).  Each operation yields the board after the call and the *)
(* Result it returns.                                                      *)

Board_new(name) ==
    [name |-> name,
     columns |-> <<Column_new("To Do"), Column_new("In Progress"), Column_new("Done")>>,
     next_task_id |-> 1]

\* Faulty variant: the id is one more than the largest id on the board (no counter).
Board_add_task_reuse(b, column_index, title) ==
    IF column_index >= Len(b.columns)
    THEN [board |-> b, result |-> Err("Column index out of bounds")]
    ELSE LET ids == UNION {{b.columns[c].tasks[k].id : k \in 1..Len(b.columns[c].tasks)} :
                           c \in 1..Len(b.columns)}
             task_id == IF ids = {} THEN 1 ELSE (CHOOSE m \in ids : \A n \in ids : n <= m) + 1
             task == Task_new(task_id, title)
         IN  [board |-> [b EXCEPT !.next_task_id = b.next_task_id + 1,
                                  !.columns = SetAt(b.columns, column_index,
                                      Column_add_task(At(b.columns, column_index), task))],
              result |-> Ok(task_id)]

Board_add_task(b, column_index, title) ==
    IF column_index >= Len(b.columns)
    THEN [board |-> b, result |-> Err("Column index out of bounds")]
    ELSE LET task_id == b.next_task_id
             task == Task_new(task_id, title)
         IN  [board |-> [b EXCEPT !.next_task_id = b.next_task_id + 1,
                                  !.columns = SetAt(b.columns, column_index,
                                      Column_add_task(At(b.columns, column_index), task))],
              result |-> Ok(task_id)]

\* Faulty variant: the task is appended to the target and stays in the source.
Board_move_task_copy(b, from_column, to_column, task_id) ==
    IF from_column >= Len(b.columns) \/ to_column >= Len(b.columns)
    THEN [board |-> b, result |-> Err("Column index out of bounds")]
    ELSE LET r == Column_remove_task(At(b.columns, from_column), task_id)
         IN  IF ~is_some(r.removed)
             THEN [board |-> b, result |-> Err("Task not found in source column")]
             ELSE [board |-> [b EXCEPT !.columns = SetAt(b.columns, to_column,
                                 Column_add_task(At(b.columns, to_column), unwrap(r.removed)))],
                   result |-> Ok(<<>>)]

\* Faulty variant: to_column is checked after the task was taken out of from_column.
Board_move_task_late_check(b, from_column, to_column, task_id) ==
    IF from_column >= Len(b.columns)
    THEN [board |-> b, result |-> Err("Column index out of bounds")]
    ELSE LET r == Column_remove_task(At(b.columns, from_column), task_id)
             cols1 == SetAt(b.columns, from_column, r.column)
         IN  IF ~is_some(r.removed)
             THEN [board |-> b, result |-> Err("Task not found in source column")]
             ELSE IF to_column >= Len(b.columns)
             THEN [board |-> [b EXCEPT !.columns = cols1],
                   result |-> Err("Column index out of bounds")]
             ELSE [board |-> [b EXCEPT !.columns = SetAt(cols1, to_column,
                                 Column_add_task(At(cols1, to_column), unwrap(r.removed)))],
                   result |-> Ok(<<>>)]

\* Faulty variant: a move within one column is answered Ok without touching it.
Board_move_task_same_noop(b, from_column, to_column, task_id) ==
    IF from_column >= Len(b.columns) \/ to_column >= Len(b.columns)
    THEN [board |-> b, result |-> Err("Column index out of bounds")]
    ELSE LET r == Column_remove_task(At(b.columns, from_column), task_id)
         IN  IF ~is_some(r.removed)
             THEN [board |-> b, result |-> Err("Task not found in source column")]
             ELSE IF from_column = to_column
             THEN [board |-> b, result |-> Ok(<<>>)]
             ELSE LET cols1 == SetAt(b.columns, from_column, r.column)
                      cols2 == SetAt(cols1, to_column,
                                     Column_add_task(At(cols1, to_column), unwrap(r.removed)))
                  IN  [board |-> [b EXCEPT !.columns = cols2], result |-> Ok(<<>>)]

Board_move_task(b, from_column, to_column, task_id) ==
    IF from_column >= Len(b.columns) \/ to_column >= Len(b.columns)
    THEN [board |-> b, result |-> Err("Column index out of bounds")]
    ELSE LET r == Column_remove_task(At(b.columns, from_column), task_id)
         IN  IF ~is_some(r.removed)
             THEN [board |-> b, result |-> Err("Task not found in source column")]
             ELSE LET cols1 == SetAt(b.columns, from_column, r.column)
                      cols2 == SetAt(cols1, to_column,
                                     Column_add_task(At(cols1, to_column), unwrap(r.removed)))
                  IN  [board |-> [b EXCEPT !.columns = cols2], result |-> Ok(<<>>)]

\* Faulty variant: when the id is not in the column its first task is taken.
Board_find_task_or_first(b, column_index, task_id) ==
    IF column_index >= Len(b.columns)
    THEN Err("Column index out of bounds")
    ELSE LET pos == position_id(At(b.columns, column_index).tasks, task_id)
         IN  IF is_some(pos) THEN Ok(unwrap(pos))
             ELSE IF At(b.columns, column_index).tasks /= <<>> THEN Ok(0)
             ELSE Err("Task not found in column")

\* The first two steps of each per-task update: the bounds check, then
\* iter_mut().find(|t| t.id == task_id) in the given column only.  Ok(pos) is the
\* place of the task found.
Board_find_task(b, column_index, task_id) ==
    IF column_index >= Len(b.columns)
    THEN Err("Column index out of bounds")
    ELSE LET pos == position_id(At(b.columns, column_index).tasks, task_id)
         IN  IF is_some(pos) THEN Ok(unwrap(pos)) ELSE Err("Task not found in column")

\* The task at (column_index, pos), borrowed mutably, becomes `task`.
Board_with_task(b, column_index, pos, task) ==
    [b EXCEPT !.columns[column_index + 1].tasks[pos + 1] = task]

Board_task_at(b, column_index, pos) == At(At(b.columns, column_index).tasks, pos)

\* Faulty variant: the first task of the column is renamed, whatever its id.
Board_update_task_title_first(b, column_index, task_id, new_title) ==
    LET f == Board_find_task(b, column_index, task_id)
    IN  IF ~is_ok(f) THEN [board |-> b, result |-> f]
        ELSE [board |-> Board_with_task(b, column_index, 0,
                            Task_update_title(Board_task_at(b, column_index, 0), new_title)),
              result |-> Ok(<<>>)]

Board_update_task_title(b, column_index, task_id, new_title) ==
    LET f == Board_find_task(b, column_index, task_id)
    IN  IF ~is_ok(f) THEN [board |-> b, result |-> f]
        ELSE [board |-> Board_with_task(b, column_index, f[2],
                            Task_update_title(Board_task_at(b, column_index, f[2]), new_title)),
              result |-> Ok(<<>>)]

Board_update_task_description(b, column_index, task_id, description) ==
    LET f == Board_find_task(b, column_index, task_id)
    IN  IF ~is_ok(f) THEN [board |-> b, result |-> f]
        ELSE [board |-> Board_with_task(b, column_index, f[2],
                            Task_set_description(Board_task_at(b, column_index, f[2]),
                                                 description)),
              result |-> Ok(<<>>)]

Board_cycle_task_priority(b, column_index, task_id) ==
    LET f == Board_find_task(b, column_index, task_id)
    IN  IF ~is_ok(f) THEN [board |-> b, result |-> f]
        ELSE [board |-> Board_with_task(b, column_index, f[2],
                            Task_cycle_priority(Board_task_at(b, column_index, f[2]))),
              result |-> Ok(<<>>)]

Board_add_task_tag(b, column_index, task_id, tag) ==
    LET f == Board_find_task(b, column_index, task_id)
    IN  IF ~is_ok(f) THEN [board |-> b, result |-> f]
        ELSE [board |-> Board_with_task(b, column_index, f[2],
                            Task_add_tag(Board_task_at(b, column_index, f[2]), tag)),
              result |-> Ok(<<>>)]

Board_set_task_due_date(b, column_index, task_id, due_date) ==
    LET f == Board_find_task(b, column_index, task_id)
    IN  IF ~is_ok(f) THEN [board |-> b, result |-> f]
        ELSE [board |-> Board_with_task(b, column_index, f[2],
                            Task_set_due_date(Board_task_at(b, column_index, f[2]), due_date)),
              result |-> Ok(<<>>)]

\* Searches the columns in order; Some(<<task, col_idx>>) for the first match.
Board_get_task(b, task_id) ==
    LET cols == {c \in 1..Len(b.columns) : is_some(position_id(b.columns[c].tasks, task_id))}
    IN  IF cols = {} THEN None
        ELSE LET c == CHOOSE c \in cols : \A d \in cols : c <= d
             IN  Some(<<At(b.columns[c].tasks, unwrap(position_id(b.columns[c].tasks, task_id))),
                        c - 1>>)

----------------------------------------------------------------------------
(* serde_json: what a board file and the metadata file hold                *)

PriorityName(p) ==
    CASE p = High -> "High"
      [] p = Medium -> "Medium"
      [] p = Low -> "Low"
      [] p = PriorityNone -> "None"

PriorityOfName(n) ==
    CASE n = "High" -> High
      [] n = "Medium" -> Medium
      [] n = "Low" -> Low
      [] n = "None" -> PriorityNone

\* Option<String> is written as null or as the string.
json_opt(o) == IF is_some(o) THEN <<"string", unwrap(o)>> ELSE <<"null">>

opt_of_json(j) == IF j[1] = "null" THEN None ELSE Some(j[2])

task_to_json(t) ==
    [id |-> t.id, title |-> t.title, description |-> json_opt(t.description),
     priority |-> PriorityName(t.priority), tags |-> t.tags,
     created_at |-> t.created_at, updated_at |-> t.updated_at,
     due_date |-> json_opt(t.due_date)]

task_from_json(j) ==
    [id |-> j.id, title |-> j.title, description |-> opt_of_json(j.description),
     priority |-> PriorityOfName(j.priority), tags |-> j.tags,
     created_at |-> j.created_at, updated_at |-> j.updated_at,
     due_date |-> opt_of_json(j.due_date)]

column_to_json(c) ==
    [name |-> c.name, tasks |-> [k \in 1..Len(c.tasks) |-> task_to_json(c.tasks[k])]]

column_from_json(j) ==
    [name |-> j.name, tasks |-> [k \in 1..Len(j.tasks) |-> task_from_json(j.tasks[k])]]

\* serde_json::to_string_pretty(board)
board_to_json(b) ==
    [name |-> b.name,
     columns |-> [k \in 1..Len(b.columns) |-> column_to_json(b.columns[k])],
     next_task_id |-> b.next_task_id]

\* serde_json::from_str::<Board>
board_from_json(j) ==
    [name |-> j.name,
     columns |-> [k \in 1..Len(j.columns) |-> column_from_json(j.columns[k])],
     next_task_id |-> j.next_task_id]

Metadata_default == [active_board |-> default_name, boards |-> <<default_name>>]

----------------------------------------------------------------------------
(* Storage (storage.rs).  The value s is what is on disk: s.boards maps a  *)
(* file stem under boards/ to the JSON it holds, s.metadata is the content *)
(* of metadata.json (None: no such file), s.legacy that of the old         *)
(* board.json.  Each operation yields the disk after the call and what it  *)
(* returns.  While io_fails holds every file-system call fails: exists()  *)
(* answers false, reads and writes return Err and change nothing.          *)
(* s.unreadable is the set of board files that exist and can be written    *)
(* but whose read fails (a file without read permission).                  *)

sanitize_board_name(name) ==
    [k \in 1..Len(name) |->
        IF name[k] \in Alphanumeric \/ name[k] = "-" \/ name[k] = "_" THEN name[k] ELSE "-"]

board_path(name) == sanitize_board_name(name)

write_file(files, path, json) == (path :> json) @@ files

remove_file(files, path) == [f \in DOMAIN files \ {path} |-> files[f]]

\* metadata_path.exists() is false for a missing file and for a failing call
Storage_load_metadata(s) ==
    IF io_fails \/ ~is_some(s.metadata) THEN Metadata_default ELSE unwrap(s.metadata)

Storage_save_metadata(s, metadata) ==
    IF io_fails THEN s ELSE [s EXCEPT !.metadata = Some(metadata)]

\* Faulty variant: the metadata file is not consulted, any board.json is migrated.
Storage_migrate_old_format_always(s) ==
    LET s1 == IF is_some(s.legacy)
              THEN Storage_save_metadata(
                      [s EXCEPT !.boards = write_file(s.boards, board_path(default_name),
                                                      unwrap(s.legacy)),
                                !.legacy = None],
                      Metadata_default)
              ELSE s
    IN  IF ~is_some(s1.metadata) THEN Storage_save_metadata(s1, Metadata_default) ELSE s1

Storage_migrate_old_format(s) ==
    LET s1 == IF is_some(s.legacy) /\ ~is_some(s.metadata)
              THEN Storage_save_metadata(
                      [s EXCEPT !.boards = write_file(s.boards, board_path(default_name),
                                                      unwrap(s.legacy)),
                                !.legacy = None],
                      Metadata_default)
              ELSE s
    IN  IF ~is_some(s1.metadata) THEN Storage_save_metadata(s1, Metadata_default) ELSE s1

\* ensure_dirs_exist()? returns Err when create_dir_all fails
Storage_new_is_ok == ~io_fails

Storage_new(s) == Storage_migrate_old_format(s)

Storage_get_active_board_name(s) == Storage_load_metadata(s).active_board

\* Faulty variant: the name is listed, the active board stays what it was.
Storage_set_active_board_name_stale(s, name) ==
    LET metadata == Storage_load_metadata(s)
        boards == IF ~contains(metadata.boards, name)
                  THEN Append(metadata.boards, name) ELSE metadata.boards
    IN  Storage_save_metadata(s, [active_board |-> metadata.active_board, boards |-> boards])

Storage_set_active_board_name(s, name) ==
    LET metadata == Storage_load_metadata(s)
        boards == IF ~contains(metadata.boards, name)
                  THEN Append(metadata.boards, name) ELSE metadata.boards
    IN  Storage_save_metadata(s, [active_board |-> name, boards |-> boards])

Storage_list_boards(s) == Storage_load_metadata(s).boards

Storage_board_exists(s, name) == ~io_fails /\ board_path(name) \in DOMAIN s.boards

\* fs::read_to_string(&board_path)? returns Err for a file that cannot be read.
Storage_read_is_ok(s, name) == board_path(name) \notin s.unreadable

\* Ok(None) when the file does not exist, Err when its read fails, else
\* Ok(Some(board)); here as the Option every caller makes of it with .ok().flatten().
Storage_load_board(s, name) ==
    IF ~Storage_board_exists(s, name) THEN None
    ELSE IF ~Storage_read_is_ok(s, name) THEN None
    ELSE Some(board_from_json(s.boards[board_path(name)]))

\* Faulty variant: the name is pushed to the boards list on every save.
Storage_save_board_always_push(s, name, b) ==
    LET s1 == [s EXCEPT !.boards = write_file(s.boards, board_path(name), board_to_json(b))]
        metadata == Storage_load_metadata(s1)
    IN  Storage_save_metadata(s1, [metadata EXCEPT !.boards = Append(metadata.boards, name)])

Storage_save_board(s, name, b) ==
    LET s1 == [s EXCEPT !.boards = write_file(s.boards, board_path(name), board_to_json(b))]
        metadata == Storage_load_metadata(s1)
    IN  IF io_fails THEN s
        ELSE IF ~contains(metadata.boards, name)
        THEN Storage_save_metadata(s1, [metadata EXCEPT !.boards = Append(metadata.boards, name)])
        ELSE s1

\* Faulty variant: the active board is left as it was when it is the one deleted.
Storage_delete_board_keeps_active(s, name) ==
    LET s1 == IF Storage_board_exists(s, name)
              THEN [s EXCEPT !.boards = remove_file(s.boards, board_path(name)),
                             !.unreadable = @ \ {board_path(name)}]
              ELSE s
        metadata == Storage_load_metadata(s1)
        boards == retain_ne(metadata.boards, name)
    IN  Storage_save_metadata(s1, [active_board |-> metadata.active_board, boards |-> boards])

Storage_delete_board(s, name) ==
    LET s1 == IF Storage_board_exists(s, name)
              THEN [s EXCEPT !.boards = remove_file(s.boards, board_path(name)),
                             !.unreadable = @ \ {board_path(name)}]
              ELSE s
        metadata == Storage_load_metadata(s1)
        boards == retain_ne(metadata.boards, name)
        active == IF metadata.active_board = name
                  THEN (IF boards /= <<>> THEN Head(boards) ELSE default_name)
                  ELSE metadata.active_board
    IN  Storage_save_metadata(s1, [active_board |-> active, boards |-> boards])

\* save_metadata(&metadata)? returns Err when the write fails
Storage_delete_board_is_ok == ~io_fails

----------------------------------------------------------------------------
(* App (app.rs).  One action per method; a method that returns early       *)
(* leaves every field as it was.                                           *)

selected_tasks == At(board.columns, selected_column).tasks

\* App::save: a failed save is only logged.
App_save(s, name, b) == Storage_save_board(s, name, b)

\* App::new on the disk s: the fields of the constructed App and the disk after.
App_new(s) ==
    LET s0 == Storage_new(s)
        name == Storage_get_active_board_name(s0)
        loaded == Storage_load_board(s0, name)
        b == IF is_some(loaded) THEN unwrap(loaded) ELSE Board_new(name)
        s1 == IF ~Storage_board_exists(s0, name) THEN Storage_save_board(s0, name, b) ELSE s0
    IN  [board |-> b, selected_column |-> 0, selected_task_index |-> None,
         input_mode |-> "Normal", input_buffer |-> <<>>, editing_task_id |-> None,
         storage |-> s1, current_board_name |-> name,
         available_boards |-> Storage_list_boards(s1), selected_board_index |-> None]

start_board_selection ==
    /\ input_mode' = "SelectingBoard"
    /\ selected_board_index' = position_name(available_boards, current_board_name)
    /\ UNCHANGED <<board, selected_column, selected_task_index, input_buffer,
                   editing_task_id, current_board_name, available_boards, storage>>

cancel_board_selection ==
    /\ input_mode' = "Normal"
    /\ selected_board_index' = None
    /\ UNCHANGED <<board, selected_column, selected_task_index, input_buffer,
                   editing_task_id, current_board_name, available_boards, storage>>

next_board_in_list ==
    /\ selected_board_index' =
          IF available_boards = <<>> THEN selected_board_index
          ELSE IF is_some(selected_board_index)
               THEN Some((unwrap(selected_board_index) + 1) % Len(available_boards))
               ELSE Some(0)
    /\ UNCHANGED <<board, selected_column, selected_task_index, input_mode, input_buffer,
                   editing_task_id, current_board_name, available_boards, storage>>

previous_board_in_list ==
    /\ selected_board_index' =
          IF available_boards = <<>> THEN selected_board_index
          ELSE IF is_some(selected_board_index)
               THEN (IF unwrap(selected_board_index) > 0
                     THEN Some(unwrap(selected_board_index) - 1)
                     ELSE Some(Len(available_boards) - 1))
               ELSE Some(0)
    /\ UNCHANGED <<board, selected_column, selected_task_index, input_mode, input_buffer,
                   editing_task_id, current_board_name, available_boards, storage>>

\* Faulty variant: the named board is never loaded, a fresh one is always constructed.
switch_board_fresh(buffer) ==
    LET board_name == trim(buffer)
        s1 == App_save(storage, current_board_name, board)
        new_board == Board_new(board_name)
        s2 == Storage_save_board(s1, board_name, new_board)
        s3 == Storage_set_active_board_name(s2, board_name)
    IN  IF board_name = <<>>
        THEN [board |-> board, current_board_name |-> current_board_name, storage |-> storage,
              available_boards |-> available_boards, selected_column |-> selected_column,
              selected_task_index |-> selected_task_index]
        ELSE [board |-> new_board, current_board_name |-> board_name, storage |-> s3,
              available_boards |-> Storage_list_boards(s3), selected_column |-> 0,
              selected_task_index |-> None]

\* App::switch_board on an App whose fields are `a`, with `buffer` in input_buffer:
\* the fields it leaves behind.
switch_board_of(a, buffer) ==
    LET board_name == trim(buffer)
        s1 == App_save(a.storage, a.current_board_name, a.board)
        loaded == Storage_load_board(s1, board_name)
        new_board == IF is_some(loaded) THEN unwrap(loaded) ELSE Board_new(board_name)
        s2 == Storage_save_board(s1, board_name, new_board)
        s3 == Storage_set_active_board_name(s2, board_name)
    IN  IF board_name = <<>>
        THEN a
        ELSE [board |-> new_board, current_board_name |-> board_name, storage |-> s3,
              available_boards |-> Storage_list_boards(s3), selected_column |-> 0,
              selected_task_index |-> None]

\* The fields of the running App that switch_board reads or writes.
switch_board_fields ==
    [board |-> board, current_board_name |-> current_board_name, storage |-> storage,
     available_boards |-> available_boards, selected_column |-> selected_column,
     selected_task_index |-> selected_task_index]

\* App::switch_board with `buffer` in input_buffer: the fields it leaves behind.
switch_board(buffer) == switch_board_of(switch_board_fields, buffer)

switch_to_selected_board ==
    /\ IF is_some(selected_board_index) /\ unwrap(selected_board_index) < Len(available_boards)
       THEN LET board_name == At(available_boards, unwrap(selected_board_index))
                r == switch_board(board_name)
            IN  /\ input_buffer' = board_name
                /\ board' = r.board
                /\ current_board_name' = r.current_board_name
                /\ storage' = r.storage
                /\ available_boards' = r.available_boards
                /\ selected_column' = r.selected_column
                /\ selected_task_index' = r.selected_task_index
       ELSE UNCHANGED <<input_buffer, board, current_board_name, storage, available_boards,
                        selected_column, selected_task_index>>
    /\ input_mode' = "Normal"
    /\ selected_board_index' = None
    /\ UNCHANGED editing_task_id

start_creating_board ==
    /\ input_mode' = "CreatingBoard"
    /\ input_buffer' = <<>>
    /\ UNCHANGED <<board, selected_column, selected_task_index, editing_task_id,
                   current_board_name, available_boards, selected_board_index, storage>>

create_new_board ==
    /\ IF input_buffer /= <<>>
       THEN LET r == switch_board(input_buffer)
            IN  /\ board' = r.board
                /\ current_board_name' = r.current_board_name
                /\ storage' = r.storage
                /\ available_boards' = r.available_boards
                /\ selected_column' = r.selected_column
                /\ selected_task_index' = r.selected_task_index
       ELSE UNCHANGED <<board, current_board_name, storage, available_boards,
                        selected_column, selected_task_index>>
    /\ input_mode' = "Normal"
    /\ input_buffer' = <<>>
    /\ UNCHANGED <<editing_task_id, selected_board_index>>

\* Faulty variant: Esc leaves the board-name prompt without clearing the buffer.
cancel_creating_board_keeps_buffer ==
    /\ input_mode' = "Normal"
    /\ UNCHANGED <<board, selected_column, selected_task_index, input_buffer, editing_task_id,
                   current_board_name, available_boards, selected_board_index, storage>>

cancel_creating_board ==
    /\ input_mode' = "Normal"
    /\ input_buffer' = <<>>
    /\ UNCHANGED <<board, selected_column, selected_task_index, editing_task_id,
                   current_board_name, available_boards, selected_board_index, storage>>

\* Faulty variant: the only board can be deleted too.
delete_selected_board_any ==
    IF /\ is_some(selected_board_index)
       /\ unwrap(selected_board_index) < Len(available_boards)
       /\ Storage_delete_board_is_ok
    THEN LET idx == unwrap(selected_board_index)
             board_to_delete == At(available_boards, idx)
             s1 == Storage_delete_board(storage, board_to_delete)
             boards == Storage_list_boards(s1)
             switches == board_to_delete = current_board_name /\ boards /= <<>>
             first_board == Head(boards)
             loaded == Storage_load_board(s1, first_board)
         IN  /\ available_boards' = boards
             /\ board' = IF switches
                         THEN (IF is_some(loaded) THEN unwrap(loaded) ELSE Board_new(first_board))
                         ELSE board
             /\ current_board_name' = IF switches THEN first_board ELSE current_board_name
             /\ storage' = IF switches THEN Storage_set_active_board_name(s1, first_board) ELSE s1
             /\ selected_board_index' =
                   IF idx >= Len(boards)
                   THEN Some(IF Len(boards) = 0 THEN 0 ELSE Len(boards) - 1)
                   ELSE selected_board_index
             /\ UNCHANGED <<selected_column, selected_task_index, input_mode, input_buffer,
                            editing_task_id>>
    ELSE UNCHANGED <<app_vars, storage>>

\* Faulty variant: the index is not adjusted after the list became shorter.
delete_selected_board_keeps_index ==
    IF /\ is_some(selected_board_index)
       /\ unwrap(selected_board_index) < Len(available_boards)
       /\ ~(Len(available_boards) <= 1)
       /\ Storage_delete_board_is_ok
    THEN LET idx == unwrap(selected_board_index)
             board_to_delete == At(available_boards, idx)
             s1 == Storage_delete_board(storage, board_to_delete)
             boards == Storage_list_boards(s1)
             switches == board_to_delete = current_board_name /\ boards /= <<>>
             first_board == Head(boards)
             loaded == Storage_load_board(s1, first_board)
         IN  /\ available_boards' = boards
             /\ board' = IF switches
                         THEN (IF is_some(loaded) THEN unwrap(loaded) ELSE Board_new(first_board))
                         ELSE board
             /\ current_board_name' = IF switches THEN first_board ELSE current_board_name
             /\ storage' = IF switches THEN Storage_set_active_board_name(s1, first_board) ELSE s1
             /\ UNCHANGED <<selected_column, selected_task_index, input_mode, input_buffer,
                            editing_task_id, selected_board_index>>
    ELSE UNCHANGED <<app_vars, storage>>

delete_selected_board ==
    IF /\ is_some(selected_board_index)
       /\ unwrap(selected_board_index) < Len(available_boards)
       /\ ~(Len(available_boards) <= 1)
       /\ Storage_delete_board_is_ok
    THEN LET idx == unwrap(selected_board_index)
             board_to_delete == At(available_boards, idx)
             s1 == Storage_delete_board(storage, board_to_delete)
             boards == Storage_list_boards(s1)
             switches == board_to_delete = current_board_name /\ boards /= <<>>
             first_board == Head(boards)
             loaded == Storage_load_board(s1, first_board)
         IN  /\ available_boards' = boards
             /\ board' = IF switches
                         THEN (IF is_some(loaded) THEN unwrap(loaded) ELSE Board_new(first_board))
                         ELSE board
             /\ current_board_name' = IF switches THEN first_board ELSE current_board_name
             /\ storage' = IF switches THEN Storage_set_active_board_name(s1, first_board) ELSE s1
             /\ selected_board_index' =
                   IF idx >= Len(boards)
                   THEN Some(IF Len(boards) = 0 THEN 0 ELSE Len(boards) - 1)
                   ELSE selected_board_index
             /\ UNCHANGED <<selected_column, selected_task_index, input_mode, input_buffer,
                            editing_task_id>>
    ELSE UNCHANGED <<app_vars, storage>>

\* App::update_task_selection on column `col` of board b.
update_task_selection(b, col) ==
    IF Len(At(b.columns, col).tasks) > 0 THEN Some(0) ELSE None

\* Faulty variant: no wrap-around at the last column.
next_column_nowrap ==
    /\ selected_column' = selected_column + 1
    /\ selected_task_index' = None
    /\ UNCHANGED <<board, input_mode, input_buffer, editing_task_id, current_board_name,
                   available_boards, selected_board_index, storage>>

next_column ==
    /\ selected_column' = (selected_column + 1) % Len(board.columns)
    /\ selected_task_index' = update_task_selection(board, selected_column')
    /\ UNCHANGED <<board, input_mode, input_buffer, editing_task_id, current_board_name,
                   available_boards, selected_board_index, storage>>

\* Faulty variant: the task selection is not re-derived for the new column.
previous_column_keeps_selection ==
    /\ selected_column' = IF selected_column > 0 THEN selected_column - 1
                          ELSE Len(board.columns) - 1
    /\ UNCHANGED <<board, selected_task_index, input_mode, input_buffer, editing_task_id,
                   current_board_name, available_boards, selected_board_index, storage>>

previous_column ==
    /\ selected_column' = IF selected_column > 0 THEN selected_column - 1
                          ELSE Len(board.columns) - 1
    /\ selected_task_index' = update_task_selection(board, selected_column')
    /\ UNCHANGED <<board, input_mode, input_buffer, editing_task_id, current_board_name,
                   available_boards, selected_board_index, storage>>

next_task ==
    /\ selected_task_index' =
          LET task_count == Len(selected_tasks)
          IN  IF task_count = 0 THEN selected_task_index
              ELSE IF is_some(selected_task_index)
                   THEN Some((unwrap(selected_task_index) + 1) % task_count)
                   ELSE Some(0)
    /\ UNCHANGED <<board, selected_column, input_mode, input_buffer, editing_task_id,
                   current_board_name, available_boards, selected_board_index, storage>>

previous_task ==
    /\ selected_task_index' =
          LET task_count == Len(selected_tasks)
          IN  IF task_count = 0 THEN selected_task_index
              ELSE IF is_some(selected_task_index)
                   THEN (IF unwrap(selected_task_index) > 0
                         THEN Some(unwrap(selected_task_index) - 1)
                         ELSE Some(task_count - 1))
                   ELSE Some(0)
    /\ UNCHANGED <<board, selected_column, input_mode, input_buffer, editing_task_id,
                   current_board_name, available_boards, selected_board_index, storage>>

\* `if let Some(task_idx) = self.selected_task_index` and `task_idx < column.tasks.len()`
selection_in_range ==
    is_some(selected_task_index) /\ unwrap(selected_task_index) < Len(selected_tasks)

\* Faulty variant: after a deletion the first task of the column is selected.
delete_selected_task_first ==
    IF selection_in_range
    THEN LET task_id == At(selected_tasks, unwrap(selected_task_index)).id
             column == Column_remove_task(At(board.columns, selected_column), task_id).column
         IN  /\ board' = [board EXCEPT !.columns = SetAt(board.columns, selected_column, column)]
             /\ selected_task_index' = IF Len(column.tasks) = 0 THEN None ELSE Some(0)
             /\ storage' = App_save(storage, current_board_name, board')
             /\ UNCHANGED <<selected_column, input_mode, input_buffer, editing_task_id,
                            current_board_name, available_boards, selected_board_index>>
    ELSE UNCHANGED <<app_vars, storage>>

delete_selected_task ==
    IF selection_in_range
    THEN LET task_idx == unwrap(selected_task_index)
             task_id == At(selected_tasks, task_idx).id
             column == Column_remove_task(At(board.columns, selected_column), task_id).column
             new_task_count == Len(column.tasks)
         IN  /\ board' = [board EXCEPT !.columns = SetAt(board.columns, selected_column, column)]
             /\ selected_task_index' =
                   IF new_task_count = 0 THEN None
                   ELSE IF task_idx >= new_task_count THEN Some(new_task_count - 1)
                   ELSE selected_task_index
             /\ storage' = App_save(storage, current_board_name, board')
             /\ UNCHANGED <<selected_column, input_mode, input_buffer, editing_task_id,
                            current_board_name, available_boards, selected_board_index>>
    ELSE UNCHANGED <<app_vars, storage>>

\* Faulty variant: the task moves, the column selection stays behind.
move_selected_task_stay(to_column) ==
    IF selection_in_range
    THEN LET task_id == At(selected_tasks, unwrap(selected_task_index)).id
             r == Board_move_task(board, selected_column, to_column, task_id)
         IN  IF is_ok(r.result)
             THEN /\ board' = r.board
                  /\ selected_task_index' = update_task_selection(r.board, selected_column)
                  /\ storage' = App_save(storage, current_board_name, board')
                  /\ UNCHANGED <<selected_column, input_mode, input_buffer, editing_task_id,
                                 current_board_name, available_boards, selected_board_index>>
             ELSE UNCHANGED <<app_vars, storage>>
    ELSE UNCHANGED <<app_vars, storage>>

\* The body shared by move_task_left and move_task_right once the boundary test
\* has passed: to_column is the adjacent column.
move_selected_task(to_column) ==
    IF selection_in_range
    THEN LET task_id == At(selected_tasks, unwrap(selected_task_index)).id
             r == Board_move_task(board, selected_column, to_column, task_id)
         IN  IF is_ok(r.result)
             THEN /\ board' = r.board
                  /\ selected_column' = to_column
                  /\ selected_task_index' = position_id(At(r.board.columns, to_column).tasks,
                                                        task_id)
                  /\ storage' = App_save(storage, current_board_name, board')
                  /\ UNCHANGED <<input_mode, input_buffer, editing_task_id,
                                 current_board_name, available_boards, selected_board_index>>
             ELSE UNCHANGED <<app_vars, storage>>
    ELSE UNCHANGED <<app_vars, storage>>

move_task_left ==
    IF selected_column = 0 THEN UNCHANGED <<app_vars, storage>>
    ELSE move_selected_task(selected_column - 1)

move_task_right ==
    IF selected_column >= Len(board.columns) - 1 THEN UNCHANGED <<app_vars, storage>>
    ELSE move_selected_task(selected_column + 1)

start_creating ==
    /\ input_mode' = "Creating"
    /\ input_buffer' = <<>>
    /\ UNCHANGED <<board, selected_column, selected_task_index, editing_task_id,
                   current_board_name, available_boards, selected_board_index, storage>>

create_task ==
    /\ IF input_buffer /= <<>>
       THEN LET b == Board_add_task(board, selected_column, input_buffer).board
                task_count == Len(At(b.columns, selected_column).tasks)
            IN  /\ board' = b
                /\ input_buffer' = <<>>
                /\ selected_task_index' = IF task_count > 0 THEN Some(task_count - 1)
                                          ELSE selected_task_index
                /\ storage' = App_save(storage, current_board_name, b)
       ELSE UNCHANGED <<board, input_buffer, selected_task_index, storage>>
    /\ input_mode' = "Normal"
    /\ UNCHANGED <<selected_column, editing_task_id, current_board_name, available_boards,
                   selected_board_index>>

cancel_creating ==
    /\ input_mode' = "Normal"
    /\ input_buffer' = <<>>
    /\ UNCHANGED <<board, selected_column, selected_task_index, editing_task_id,
                   current_board_name, available_boards, selected_board_index, storage>>

start_editing ==
    IF selection_in_range
    THEN LET task == At(selected_tasks, unwrap(selected_task_index))
         IN  /\ editing_task_id' = Some(task.id)
             /\ input_buffer' = task.title
             /\ input_mode' = "Editing"
             /\ UNCHANGED <<board, selected_column, selected_task_index, current_board_name,
                            available_boards, selected_board_index, storage>>
    ELSE UNCHANGED <<app_vars, storage>>

\* Faulty variant: the title is saved, editing_task_id is kept.
save_edit_keeps_id ==
    /\ IF is_some(editing_task_id) /\ input_buffer /= <<>>
       THEN /\ board' = Board_update_task_title(board, selected_column,
                                                unwrap(editing_task_id), input_buffer).board
            /\ storage' = App_save(storage, current_board_name, board')
       ELSE UNCHANGED <<board, storage>>
    /\ input_mode' = "Normal"
    /\ input_buffer' = <<>>
    /\ UNCHANGED <<editing_task_id, selected_column, selected_task_index, current_board_name,
                   available_boards, selected_board_index>>

save_edit ==
    /\ IF is_some(editing_task_id) /\ input_buffer /= <<>>
       THEN /\ board' = Board_update_task_title(board, selected_column,
                                                unwrap(editing_task_id), input_buffer).board
            /\ storage' = App_save(storage, current_board_name, board')
       ELSE UNCHANGED <<board, storage>>
    /\ input_mode' = "Normal"
    /\ input_buffer' = <<>>
    /\ editing_task_id' = None
    /\ UNCHANGED <<selected_column, selected_task_index, current_board_name,
                   available_boards, selected_board_index>>

\* Faulty variant: Esc commits the buffer as Enter does.
cancel_editing_saves == save_edit

cancel_editing ==
    /\ input_mode' = "Normal"
    /\ input_buffer' = <<>>
    /\ editing_task_id' = None
    /\ UNCHANGED <<board, selected_column, selected_task_index, current_board_name,
                   available_boards, selected_board_index, storage>>

text_mode ==
    input_mode \in {"Creating", "Editing", "EditingDescription", "AddingTag", "CreatingBoard"}

\* Faulty variant: the character is pushed whatever the mode.
handle_char_input_any_mode(c) ==
    /\ input_buffer' = Append(input_buffer, c)
    /\ UNCHANGED <<board, selected_column, selected_task_index, input_mode, editing_task_id,
                   current_board_name, available_boards, selected_board_index, storage>>

handle_char_input(c) ==
    /\ input_buffer' = IF text_mode THEN Append(input_buffer, c) ELSE input_buffer
    /\ UNCHANGED <<board, selected_column, selected_task_index, input_mode, editing_task_id,
                   current_board_name, available_boards, selected_board_index, storage>>

handle_backspace ==
    /\ input_buffer' = IF text_mode THEN pop(input_buffer) ELSE input_buffer
    /\ UNCHANGED <<board, selected_column, selected_task_index, input_mode, editing_task_id,
                   current_board_name, available_boards, selected_board_index, storage>>

start_viewing ==
    /\ input_mode' = IF is_some(selected_task_index) THEN "Viewing" ELSE input_mode
    /\ UNCHANGED <<board, selected_column, selected_task_index, input_buffer, editing_task_id,
                   current_board_name, available_boards, selected_board_index, storage>>

stop_viewing ==
    /\ input_mode' = "Normal"
    /\ UNCHANGED <<board, selected_column, selected_task_index, input_buffer, editing_task_id,
                   current_board_name, available_boards, selected_board_index, storage>>

\* Faulty variant: the selection is recomputed after the priority was cycled.
cycle_priority_resets_selection ==
    IF selection_in_range
    THEN LET task_id == At(selected_tasks, unwrap(selected_task_index)).id
         IN  /\ board' = Board_cycle_task_priority(board, selected_column, task_id).board
             /\ storage' = App_save(storage, current_board_name, board')
             /\ selected_task_index' = update_task_selection(board', selected_column)
             /\ UNCHANGED <<selected_column, input_mode, input_buffer,
                            editing_task_id, current_board_name, available_boards,
                            selected_board_index>>
    ELSE UNCHANGED <<app_vars, storage>>

cycle_priority ==
    IF selection_in_range
    THEN LET task_id == At(selected_tasks, unwrap(selected_task_index)).id
         IN  /\ board' = Board_cycle_task_priority(board, selected_column, task_id).board
             /\ storage' = App_save(storage, current_board_name, board')
             /\ UNCHANGED <<selected_column, selected_task_index, input_mode, input_buffer,
                            editing_task_id, current_board_name, available_boards,
                            selected_board_index>>
    ELSE UNCHANGED <<app_vars, storage>>

start_editing_description ==
    IF selection_in_range
    THEN LET task == At(selected_tasks, unwrap(selected_task_index))
         IN  /\ editing_task_id' = Some(task.id)
             /\ input_buffer' = IF is_some(task.description) THEN unwrap(task.description)
                                ELSE <<>>
             /\ input_mode' = "EditingDescription"
             /\ UNCHANGED <<board, selected_column, selected_task_index, current_board_name,
                            available_boards, selected_board_index, storage>>
    ELSE UNCHANGED <<app_vars, storage>>

save_description ==
    /\ IF is_some(editing_task_id)
       THEN /\ board' = Board_update_task_description(board, selected_column,
                                                      unwrap(editing_task_id), input_buffer).board
            /\ storage' = App_save(storage, current_board_name, board')
       ELSE UNCHANGED <<board, storage>>
    /\ input_mode' = "Normal"
    /\ input_buffer' = <<>>
    /\ editing_task_id' = None
    /\ UNCHANGED <<selected_column, selected_task_index, current_board_name,
                   available_boards, selected_board_index>>

\* Faulty variant: Esc leaves the description editor without clearing the id.
cancel_editing_description_keeps_id ==
    /\ input_mode' = "Normal"
    /\ input_buffer' = <<>>
    /\ UNCHANGED <<board, selected_column, selected_task_index, editing_task_id,
                   current_board_name, available_boards, selected_board_index, storage>>

cancel_editing_description ==
    /\ input_mode' = "Normal"
    /\ input_buffer' = <<>>
    /\ editing_task_id' = None
    /\ UNCHANGED <<board, selected_column, selected_task_index, current_board_name,
                   available_boards, selected_board_index, storage>>

start_adding_tag ==
    /\ input_mode' = IF is_some(selected_task_index) THEN "AddingTag" ELSE input_mode
    /\ input_buffer' = IF is_some(selected_task_index) THEN <<>> ELSE input_buffer
    /\ UNCHANGED <<board, selected_column, selected_task_index, editing_task_id,
                   current_board_name, available_boards, selected_board_index, storage>>

add_tag ==
    /\ IF is_some(selected_task_index) /\ input_buffer /= <<>> /\ selection_in_range
       THEN LET task_id == At(selected_tasks, unwrap(selected_task_index)).id
            IN  /\ board' = Board_add_task_tag(board, selected_column, task_id,
                                               input_buffer).board
                /\ storage' = App_save(storage, current_board_name, board')
       ELSE UNCHANGED <<board, storage>>
    /\ input_mode' = "Normal"
    /\ input_buffer' = <<>>
    /\ UNCHANGED <<selected_column, selected_task_index, editing_task_id, current_board_name,
                   available_boards, selected_board_index>>

cancel_adding_tag ==
    /\ input_mode' = "Normal"
    /\ input_buffer' = <<>>
    /\ UNCHANGED <<board, selected_column, selected_task_index, editing_task_id,
                   current_board_name, available_boards, selected_board_index, storage>>

----------------------------------------------------------------------------
(* The running program: main's event loop feeds each key press to          *)
(* handle_key_event (input.rs), which picks the App method by input_mode.  *)
(* Quitting and starting the program again constructs a new App over the   *)
(* files the last run left.                                                *)

\* Bounds of the explored runs: the task ids issued over all boards, and the
\* number of field edits that set the stored tasks apart from fresh ones.
MaxIssued == 2

MaxDecor == 1

MaxIssuedTrace == 1

MaxDecorTrace == 0

\* The texts the user types, per mode; a key is pressed only while the buffer
\* stays a prefix of one of them.
TaskTexts ==
    [Creating |-> {<<"x">>}, Editing |-> {<<"y">>}, EditingDescription |-> {<<"x">>},
     AddingTag |-> {<<"x">>}]

\* Board names with surrounding blanks.
TextsSpec == [CreatingBoard |-> {<<"!", " ">>, <<" ">>}] @@ TaskTexts

\* Board names that share a file name; these runs record last_op.
TextsTrace == [CreatingBoard |-> {<<"!", " ">>, <<"-">>, <<" ">>}] @@ TaskTexts

Chars == {"x", "y", "-", "!", " "}

IsPrefix(p, t) == Len(p) <= Len(t) /\ SubSeq(t, 1, Len(p)) = p

Typable(c) == \E t \in env.texts[input_mode] : IsPrefix(Append(input_buffer, c), t)

RECURSIVE SumOver(_, _)
SumOver(S, f) ==
    IF S = {} THEN 0
    ELSE LET x == CHOOSE x \in S : TRUE IN f[x] + SumOver(S \ {x}, f)

\* The task ids issued so far on the board in memory and on the other stored boards.
IssuedTotal ==
    LET others == DOMAIN storage.boards \ {board_path(current_board_name)}
    IN  (board.next_task_id - 1)
        + SumOver(others, [f \in others |-> storage.boards[f].next_task_id - 1])

\* How far a task is from a freshly created one.
TaskDecor(t) ==
    (IF t.title = <<"x">> THEN 0 ELSE 1) + (IF is_some(t.description) THEN 1 ELSE 0)
    + Len(t.tags) + ((PriorityNone - t.priority))

BoardDecor(b) ==
    LET cols == 1..Len(b.columns)
    IN  SumOver(cols, [c \in cols |->
            SumOver(1..Len(b.columns[c].tasks),
                    [k \in 1..Len(b.columns[c].tasks) |-> TaskDecor(b.columns[c].tasks[k])])])

DecorTotal(b, s) ==
    LET others == DOMAIN s.boards \ {board_path(current_board_name)}
    IN  BoardDecor(b)
        + SumOver(others, [f \in others |-> BoardDecor(board_from_json(s.boards[f]))])

IssueOK == IssuedTotal < env.max_issued

DecorOK == DecorTotal(board', storage') <= env.max_decor

\* The history of a step of the running program.
Trace(op) ==
    /\ last_op' = IF env.trace THEN [op |-> op, result |-> <<>>] ELSE last_op
    /\ UNCHANGED <<now, issued, env, io_fails>>

\* A key event reaches a handler only while the process runs.
Ghost(op) == running /\ Trace(op) /\ UNCHANGED running

Normal == input_mode = "Normal"

NormalKey_n == Normal /\ start_creating /\ Ghost("start_creating")

NormalKey_e == Normal /\ start_editing /\ Ghost("start_editing")

NormalKey_i == Normal /\ start_viewing /\ Ghost("start_viewing")

NormalKey_p == Normal /\ cycle_priority /\ DecorOK /\ Ghost("cycle_priority")

NormalKey_D == Normal /\ start_editing_description /\ Ghost("start_editing_description")

NormalKey_t == Normal /\ start_adding_tag /\ Ghost("start_adding_tag")

NormalKey_b == Normal /\ start_board_selection /\ Ghost("start_board_selection")

NormalKey_B == Normal /\ start_creating_board /\ Ghost("start_creating_board")

NormalKey_h == Normal /\ previous_column /\ Ghost("previous_column")

NormalKey_l == Normal /\ next_column /\ Ghost("next_column")

NormalKey_H == Normal /\ move_task_left /\ Ghost("move_task_left")

NormalKey_L == Normal /\ move_task_right /\ Ghost("move_task_right")

NormalKey_j == Normal /\ next_task /\ Ghost("next_task")

NormalKey_k == Normal /\ previous_task /\ Ghost("previous_task")

NormalKey_d == Normal /\ delete_selected_task /\ Ghost("delete_selected_task")

CreatingKey_Enter ==
    /\ input_mode = "Creating"
    /\ input_buffer /= <<>> => IssueOK
    /\ create_task
    /\ Ghost("create_task")

CreatingKey_Esc == input_mode = "Creating" /\ cancel_creating /\ Ghost("cancel_creating")

EditingKey_Enter ==
    input_mode = "Editing" /\ save_edit /\ DecorOK /\ Ghost("save_edit")

EditingKey_Esc == input_mode = "Editing" /\ cancel_editing /\ Ghost("cancel_editing")

ViewingKey_Esc == input_mode = "Viewing" /\ stop_viewing /\ Ghost("stop_viewing")

EditingDescriptionKey_Enter ==
    /\ input_mode = "EditingDescription"
    /\ save_description
    /\ DecorOK
    /\ Ghost("save_description")

EditingDescriptionKey_Esc ==
    input_mode = "EditingDescription" /\ cancel_editing_description /\ Ghost("cancel_editing_description")

AddingTagKey_Enter ==
    input_mode = "AddingTag" /\ add_tag /\ DecorOK /\ Ghost("add_tag")

AddingTagKey_Esc == input_mode = "AddingTag" /\ cancel_adding_tag /\ Ghost("cancel_adding_tag")

\* KeyCode::Char(c) and KeyCode::Backspace in the five text modes
TextKey_Char == text_mode /\ \E c \in Chars : Typable(c) /\ handle_char_input(c) /\ Ghost("handle_char_input")

TextKey_Backspace == text_mode /\ handle_backspace /\ Ghost("handle_backspace")

SelectingBoard == input_mode = "SelectingBoard"

SelectingBoardKey_Esc == SelectingBoard /\ cancel_board_selection /\ Ghost("cancel_board_selection")

SelectingBoardKey_Enter == SelectingBoard /\ switch_to_selected_board /\ Ghost("switch_to_selected_board")

SelectingBoardKey_j == SelectingBoard /\ next_board_in_list /\ Ghost("next_board_in_list")

SelectingBoardKey_k == SelectingBoard /\ previous_board_in_list /\ Ghost("previous_board_in_list")

SelectingBoardKey_d == SelectingBoard /\ delete_selected_board /\ Ghost("delete_selected_board")

\* cancel_board_selection(); start_creating_board();
SelectingBoardKey_n ==
    /\ SelectingBoard
    /\ input_mode' = "CreatingBoard"
    /\ input_buffer' = <<>>
    /\ selected_board_index' = None
    /\ UNCHANGED <<board, selected_column, selected_task_index, editing_task_id,
                   current_board_name, available_boards, storage>>
    /\ Ghost("start_creating_board")

CreatingBoardKey_Enter == input_mode = "CreatingBoard" /\ create_new_board /\ Ghost("create_new_board")

CreatingBoardKey_Esc == input_mode = "CreatingBoard" /\ cancel_creating_board /\ Ghost("cancel_creating_board")

\* The fields of the App that App::new builds on disk s.
\* Storage::new().expect(..) panics on Err: no App is built, the files stay.
Started(s) ==
    LET a == App_new(s)
    IN  IF ~Storage_new_is_ok
        THEN running' = FALSE /\ UNCHANGED <<app_vars, storage>>
        ELSE /\ running' = TRUE
             /\ board' = a.board
             /\ selected_column' = a.selected_column
             /\ selected_task_index' = a.selected_task_index
             /\ input_mode' = a.input_mode
             /\ input_buffer' = a.input_buffer
             /\ editing_task_id' = a.editing_task_id
             /\ storage' = a.storage
             /\ current_board_name' = a.current_board_name
             /\ available_boards' = a.available_boards
             /\ selected_board_index' = a.selected_board_index

\* 'q' in Normal mode, Ctrl+C in a text mode, or a panic ends the run; the next run
\* starts from the files on disk.
Restart == (~running \/ Normal \/ text_mode) /\ Started(storage) /\ Trace("new")

EmptyDisk == [boards |-> <<>>, metadata |-> None, legacy |-> None, unreadable |-> {}]

\* The first run: App::new on a disk that holds nothing yet.
FirstRun ==
    LET a == App_new(EmptyDisk)
    IN  /\ io_fails = FALSE
        /\ running = TRUE
        /\ board = a.board
        /\ selected_column = a.selected_column
        /\ selected_task_index = a.selected_task_index
        /\ input_mode = a.input_mode
        /\ input_buffer = a.input_buffer
        /\ editing_task_id = a.editing_task_id
        /\ storage = a.storage
        /\ current_board_name = a.current_board_name
        /\ available_boards = a.available_boards
        /\ selected_board_index = a.selected_board_index
        /\ now = 0
        /\ issued = <<>>
        /\ last_op = [op |-> "new", result |-> <<>>]

Init ==
    /\ FirstRun
    /\ env = [max_issued |-> MaxIssued, max_decor |-> MaxDecor, texts |-> TextsSpec,
              trace |-> FALSE]

InitTrace ==
    /\ FirstRun
    /\ env = [max_issued |-> MaxIssuedTrace, max_decor |-> MaxDecorTrace,
              texts |-> TextsTrace, trace |-> TRUE]

Next ==
    \/ NormalKey_n \/ NormalKey_e \/ NormalKey_i \/ NormalKey_p \/ NormalKey_D
    \/ NormalKey_t \/ NormalKey_b \/ NormalKey_B \/ NormalKey_h \/ NormalKey_l
    \/ NormalKey_H \/ NormalKey_L \/ NormalKey_j \/ NormalKey_k \/ NormalKey_d
    \/ CreatingKey_Enter \/ CreatingKey_Esc
    \/ EditingKey_Enter \/ EditingKey_Esc
    \/ ViewingKey_Esc
    \/ EditingDescriptionKey_Enter \/ EditingDescriptionKey_Esc
    \/ AddingTagKey_Enter \/ AddingTagKey_Esc
    \/ TextKey_Char \/ TextKey_Backspace
    \/ SelectingBoardKey_Esc \/ SelectingBoardKey_Enter \/ SelectingBoardKey_j
    \/ SelectingBoardKey_k \/ SelectingBoardKey_d \/ SelectingBoardKey_n
    \/ CreatingBoardKey_Enter \/ CreatingBoardKey_Esc
    \/ Restart

Spec == Init /\ [][Next]_vars

SpecTrace == InitTrace /\ [][Next]_vars

\* Runs on one board with more tasks; these runs record last_op.
MaxIssuedTasks == 3

MaxDecorTasks == 0

TextsTasks == [CreatingBoard |-> {<<" ">>}] @@ TaskTexts

InitTasks ==
    /\ FirstRun
    /\ env = [max_issued |-> MaxIssuedTasks, max_decor |-> MaxDecorTasks,
              texts |-> TextsTasks, trace |-> TRUE]

SpecTasks == InitTasks /\ [][Next]_vars

\* Runs on one board with edited tasks; these runs record last_op.
MaxIssuedEdit == 2

MaxDecorEdit == 1

InitEdit ==
    /\ FirstRun
    /\ env = [max_issued |-> MaxIssuedEdit, max_decor |-> MaxDecorEdit,
              texts |-> TextsTasks, trace |-> TRUE]

SpecEdit == InitEdit /\ [][Next]_vars

\* Runs in which the file system starts and stops failing between key events.
MaxIssuedFault == 1

MaxDecorFault == 0

\* The directory becomes unusable (unmounted, permissions revoked).
DiskFails ==
    /\ ~io_fails
    /\ io_fails' = TRUE
    /\ UNCHANGED <<app_vars, storage, now, issued, last_op, env, running>>

DiskRecovers ==
    /\ io_fails
    /\ io_fails' = FALSE
    /\ UNCHANGED <<app_vars, storage, now, issued, last_op, env, running>>

InitFault ==
    /\ FirstRun
    /\ env = [max_issued |-> MaxIssuedFault, max_decor |-> MaxDecorFault,
              texts |-> TextsTasks, trace |-> TRUE]

NextFault == Next \/ DiskFails \/ DiskRecovers

SpecFault == InitFault /\ [][NextFault]_vars

\* Runs on two boards with up to four tasks between them, in which the user only
\* creates tasks and boards, deletes boards and moves the task selection.
MaxIssuedStale == 4

MaxDecorStale == 0

TextsStale == [CreatingBoard |-> {<<"!">>}] @@ TaskTexts

InitStale ==
    /\ FirstRun
    /\ env = [max_issued |-> MaxIssuedStale, max_decor |-> MaxDecorStale,
              texts |-> TextsStale, trace |-> TRUE]

NextStale ==
    \/ NormalKey_n \/ CreatingKey_Enter \/ TextKey_Char
    \/ NormalKey_B \/ CreatingBoardKey_Enter
    \/ NormalKey_b \/ SelectingBoardKey_j \/ SelectingBoardKey_k
    \/ SelectingBoardKey_d \/ SelectingBoardKey_Esc
    \/ NormalKey_j \/ NormalKey_k

SpecStale == InitStale /\ [][NextStale]_vars

\* Runs on two boards in which a board file loses and regains its readability
\* between key events.
MaxIssuedUnreadable == 1

MaxDecorUnreadable == 0

MaxUnreadable == 1

\* A board file loses its read permission (chmod u-r); it stays writable.
ReadBreaks ==
    /\ Cardinality(storage.unreadable) < MaxUnreadable
    /\ \E f \in DOMAIN storage.boards \ storage.unreadable :
          storage' = [storage EXCEPT !.unreadable = @ \cup {f}]
    /\ UNCHANGED <<app_vars, now, issued, last_op, env, io_fails, running>>

\* The file can be read again.
ReadHeals ==
    /\ \E f \in storage.unreadable :
          storage' = [storage EXCEPT !.unreadable = @ \ {f}]
    /\ UNCHANGED <<app_vars, now, issued, last_op, env, io_fails, running>>

InitUnreadable ==
    /\ FirstRun
    /\ env = [max_issued |-> MaxIssuedUnreadable, max_decor |-> MaxDecorUnreadable,
              texts |-> TextsStale, trace |-> TRUE]

NextUnreadable == Next \/ ReadBreaks \/ ReadHeals

SpecUnreadable == InitUnreadable /\ [][NextUnreadable]_vars

\* Runs in which a caller of the public App methods (the unit tests of main.rs do
\* so) also invokes handle_char_input and handle_backspace in the modes whose key
\* handlers never reach them.
MaxIssuedInput == 1

MaxDecorInput == 0

Call_handle_char_input(c) ==
    /\ text_mode => Typable(c)
    /\ handle_char_input(c)
    /\ Ghost("handle_char_input")

Call_handle_backspace == handle_backspace /\ Ghost("handle_backspace")

InitInput ==
    /\ FirstRun
    /\ env = [max_issued |-> MaxIssuedInput, max_decor |-> MaxDecorInput,
              texts |-> TextsTasks, trace |-> TRUE]

NextInput ==
    \/ Next
    \/ \E c \in Chars : Call_handle_char_input(c)
    \/ Call_handle_backspace

SpecInput == InitInput /\ [][NextInput]_vars

----------------------------------------------------------------------------
(* The library on its own: any caller of the public Board and Column API   *)
(* (lib.rs), with any arguments, valid or not, while the clock advances.   *)

MaxTaskId == 3

MaxNow == 1

Columns == 0..3

TaskIds == 1..(MaxTaskId + 1)

Titles == {<<"x">>}

\* Everything but the board, the clock and the history stays as constructed.
BoardFrame ==
    UNCHANGED <<selected_column, selected_task_index, input_mode, input_buffer, editing_task_id,
                current_board_name, available_boards, selected_board_index, storage, env,
                io_fails, running>>

Call_add_task ==
    \E column_index \in Columns, title \in Titles :
        LET r == Board_add_task(board, column_index, title)
        IN  /\ board.next_task_id <= MaxTaskId
            /\ board' = r.board
            /\ issued' = IF is_ok(r.result) THEN Append(issued, r.result[2]) ELSE issued
            /\ last_op' = [op |-> "add_task", result |-> r.result]
            /\ UNCHANGED now
            /\ BoardFrame

Call_move_task ==
    \E from_column \in Columns, to_column \in Columns, task_id \in TaskIds :
        LET r == Board_move_task(board, from_column, to_column, task_id)
        IN  /\ board' = r.board
            /\ last_op' = [op |-> "move_task", result |-> r.result]
            /\ UNCHANGED <<now, issued>>
            /\ BoardFrame

\* board.columns[c].remove_task(task_id), the columns being public
Call_remove_task ==
    \E c \in 0..(Len(board.columns) - 1), task_id \in TaskIds :
        LET r == Column_remove_task(At(board.columns, c), task_id)
        IN  /\ board' = [board EXCEPT !.columns = SetAt(board.columns, c, r.column)]
            /\ last_op' = [op |-> "remove_task", result |-> r.removed]
            /\ UNCHANGED <<now, issued>>
            /\ BoardFrame

Tick ==
    /\ now < MaxNow
    /\ now' = now + 1
    /\ UNCHANGED <<board, issued, last_op>>
    /\ BoardFrame

InitBoard ==
    /\ FirstRun
    /\ env = [max_issued |-> 0, max_decor |-> 0, texts |-> TaskTexts, trace |-> TRUE]

NextBoard == Call_add_task \/ Call_move_task \/ Call_remove_task \/ Tick

SpecBoard == InitBoard /\ [][NextBoard]_vars

-----------------------------------------------------------------------------
(* The task fields: any caller of the Board methods that edit one task     *)
(* (lib.rs), on a board of a few tasks, with any column index and task id. *)

MaxFieldTasks == 2

MaxDecorFields == 3

FieldTaskIds == 1..(MaxFieldTasks + 1)

NewTitles == {<<"y">>}

Descriptions == {<<"x">>, <<>>}

Tags == {<<"x">>, <<"y">>, <<>>}

DueDates == {None, Some(<<"d">>)}

\* How many tasks of b have a due date.
DueDatesSet(b) ==
    Cardinality({<<c, k>> \in (1..Len(b.columns)) \X (1..MaxFieldTasks) :
                    k <= Len(b.columns[c].tasks) /\ is_some(b.columns[c].tasks[k].due_date)})

\* The call leaves board r.board and returns r.result.
FieldCall(op, r) ==
    /\ BoardDecor(r.board) + DueDatesSet(r.board) <= MaxDecorFields
    /\ board' = r.board
    /\ last_op' = [op |-> op, result |-> r.result]
    /\ UNCHANGED <<now, issued>>
    /\ BoardFrame

Call_add_task_few == board.next_task_id <= MaxFieldTasks /\ Call_add_task

Call_update_task_title ==
    \E column_index \in Columns, task_id \in FieldTaskIds, new_title \in NewTitles :
        FieldCall("update_task_title",
                  Board_update_task_title(board, column_index, task_id, new_title))

Call_update_task_description ==
    \E column_index \in Columns, task_id \in FieldTaskIds, description \in Descriptions :
        FieldCall("update_task_description",
                  Board_update_task_description(board, column_index, task_id, description))

Call_cycle_task_priority ==
    \E column_index \in Columns, task_id \in FieldTaskIds :
        FieldCall("cycle_task_priority",
                  Board_cycle_task_priority(board, column_index, task_id))

Call_add_task_tag ==
    \E column_index \in Columns, task_id \in FieldTaskIds, tag \in Tags :
        FieldCall("add_task_tag", Board_add_task_tag(board, column_index, task_id, tag))

Call_set_task_due_date ==
    \E column_index \in Columns, task_id \in FieldTaskIds, due_date \in DueDates :
        FieldCall("set_task_due_date",
                  Board_set_task_due_date(board, column_index, task_id, due_date))

\* board.columns[c].tasks[pos].remove_tag(tag), the fields being public
Call_remove_tag ==
    \E c \in 0..(Len(board.columns) - 1), tag \in Tags :
        \E pos \in 0..(Len(At(board.columns, c).tasks) - 1) :
            FieldCall("remove_tag",
                      [board |-> Board_with_task(board, c, pos,
                                     Task_remove_tag(Board_task_at(board, c, pos), tag)),
                       result |-> Ok(<<>>)])

NextFields ==
    \/ Call_add_task_few \/ Call_update_task_title \/ Call_update_task_description
    \/ Call_cycle_task_priority \/ Call_add_task_tag \/ Call_set_task_due_date
    \/ Call_remove_tag

SpecFields == InitBoard /\ [][NextFields]_vars

-----------------------------------------------------------------------------
(* The storage on its own: any caller of the public Storage API            *)
(* (storage.rs), with any board names, in any order.                       *)

StorageNames == {default_name, <<"!">>, <<"-">>}

\* The boards a caller saves under a name: an empty one and one with a task.
StorageBoards(name) ==
    {Board_new(name), Board_add_task(Board_new(name), 0, <<"x">>).board}

\* Everything but the files and the history stays as constructed.
StorageFrame ==
    UNCHANGED <<board, selected_column, selected_task_index, input_mode, input_buffer,
                editing_task_id, current_board_name, available_boards, selected_board_index,
                now, issued, env, io_fails, running>>

Call_save_board ==
    \E name \in StorageNames :
        \E b \in StorageBoards(name) :
            /\ storage' = Storage_save_board(storage, name, b)
            /\ last_op' = [op |-> "save_board", result |-> Ok(name)]
            /\ StorageFrame

Call_set_active_board_name ==
    \E name \in StorageNames :
        /\ storage' = Storage_set_active_board_name(storage, name)
        /\ last_op' = [op |-> "set_active_board_name", result |-> Ok(name)]
        /\ StorageFrame

Call_delete_board ==
    \E name \in StorageNames :
        /\ storage' = Storage_delete_board(storage, name)
        /\ last_op' = [op |-> "delete_board", result |-> Ok(name)]
        /\ StorageFrame

InitStorage ==
    /\ FirstRun
    /\ env = [max_issued |-> 0, max_decor |-> 0, texts |-> TaskTexts, trace |-> TRUE]

NextStorage == Call_save_board \/ Call_set_active_board_name \/ Call_delete_board

SpecStorage == InitStorage /\ [][NextStorage]_vars

-----------------------------------------------------------------------------
(* The storage from before its first Storage::new: a directory that may    *)
(* hold the board.json of the single-board layout.                         *)

\* The directories a first Storage::new can find: nothing, a board.json alone, a
\* board.json next to a boards/default.json, a board.json put back beside metadata.
OldDisks ==
    {EmptyDisk}
    \cup {[boards |-> <<>>, metadata |-> None, legacy |-> Some(board_to_json(b)),
           unreadable |-> {}] :
             b \in StorageBoards(default_name)}
    \cup {[boards |-> (default_name :> board_to_json(Board_new(default_name))),
           metadata |-> None, legacy |-> Some(board_to_json(b)), unreadable |-> {}] :
             b \in StorageBoards(<<"!">>)}
    \cup {[boards |-> <<>>, metadata |-> Some(Metadata_default),
           legacy |-> Some(board_to_json(b)), unreadable |-> {}] :
             b \in StorageBoards(default_name)}

Call_Storage_new ==
    /\ Storage_new_is_ok
    /\ storage' = Storage_new(storage)
    /\ last_op' = [op |-> "Storage_new", result |-> Ok(<<>>)]
    /\ StorageFrame

InitMigrate ==
    LET a == App_new(EmptyDisk)
    IN  /\ io_fails = FALSE
        /\ running = TRUE
        /\ now = 0
        /\ storage \in OldDisks
        /\ board = a.board
        /\ selected_column = a.selected_column
        /\ selected_task_index = a.selected_task_index
        /\ input_mode = a.input_mode
        /\ input_buffer = a.input_buffer
        /\ editing_task_id = a.editing_task_id
        /\ current_board_name = a.current_board_name
        /\ available_boards = a.available_boards
        /\ selected_board_index = a.selected_board_index
        /\ issued = <<>>
        /\ last_op = [op |-> "init", result |-> <<>>]
        /\ env = [max_issued |-> 0, max_decor |-> 0, texts |-> TaskTexts, trace |-> TRUE]

NextMigrate == Call_Storage_new \/ NextStorage

SpecMigrate == InitMigrate /\ [][NextMigrate]_vars

----------------------------------------------------------------------------
(* Claims                                                                  *)

\* All tasks of a board, column after column.
RECURSIVE Flatten(_)
Flatten(columns) ==
    IF columns = <<>> THEN <<>> ELSE Head(columns).tasks \o Flatten(Tail(columns))

AllTasks(b) == Flatten(b.columns)

TaskIdsOn(b) == {AllTasks(b)[k].id : k \in 1..Len(AllTasks(b))}

\* C1: on one Board, over any calls of add_task, move_task and remove_task, the ids
\* that add_task has returned are strictly increasing in the order of the calls, so
\* none is returned twice, also after the task that held it was removed.
C1_IdsStrictlyIncreasing ==
    \A i, j \in 1..Len(issued) : i < j => issued[i] < issued[j]

\* The scenario of C1: ids 1, 2, 3 were returned, the third after task 1 was removed.
C1_Witness ==
    /\ issued = <<1, 2, 3>>
    /\ last_op.op = "add_task"
    /\ is_ok(last_op.result)
    /\ last_op.result[2] = 3
    /\ TaskIdsOn(board) = {2, 3}

\* C2: in every state of the running program no two tasks of the board, in the same
\* or in different columns, share an id, and next_task_id is greater than the id of
\* every task on the board.
C2_UniqueIdsBelowNext ==
    /\ \A i, j \in 1..Len(AllTasks(board)) :
          i /= j => AllTasks(board)[i].id /= AllTasks(board)[j].id
    /\ \A i \in 1..Len(AllTasks(board)) : AllTasks(board)[i].id < board.next_task_id

\* A board reloaded by a switch in the board selector that holds two tasks in
\* different columns, one of them edited.
C2_Witness ==
    /\ input_mode = "Normal"
    /\ input_buffer = default_name
    /\ current_board_name = default_name
    /\ Len(available_boards) = 2
    /\ Len(At(board.columns, 0).tasks) = 1
    /\ Len(At(board.columns, 2).tasks) = 1
    /\ At(At(board.columns, 2).tasks, 0).title = <<"y">>

\* C3 as claimed: in every state of the running program selected_task_index is None
\* exactly when the selected column has no task, and Some(i) only with i below the
\* number of tasks of the selected column.
C3_SelectionIffTasks ==
    /\ selected_task_index = None <=> Len(selected_tasks) = 0
    /\ is_some(selected_task_index) => unwrap(selected_task_index) < Len(selected_tasks)

\* C4: in every state of the running program selected_column is an index of
\* board.columns.
C4_SelectedColumnValid == selected_column >= 0 /\ selected_column < Len(board.columns)

\* The current board was deleted in the board selector while the last column was
\* selected: the selection of the replaced board is still there, on an empty column.
C4_Witness ==
    /\ last_op.op = "delete_selected_board"
    /\ selected_column = 2
    /\ selected_task_index = Some(0)
    /\ Len(selected_tasks) = 0

MutatingOps ==
    {"create_task", "delete_selected_task", "move_task_left", "move_task_right", "save_edit",
     "save_description", "cycle_priority", "add_tag", "switch_to_selected_board",
     "create_new_board", "delete_selected_board"}

\* C5 as claimed: after each App method that mutates the board, the board stored
\* under current_board_name equals the board in memory.
C5_PersistedAfterMutation ==
    last_op.op \in MutatingOps => Storage_load_board(storage, current_board_name) = Some(board)

\* What a switch to the board named n leaves behind.
C6_Switched(n) ==
    LET saved == Storage_save_board(storage, current_board_name, board)
        persisted == Storage_load_board(saved, n)
    IN  /\ Storage_load_board(storage', current_board_name) = Some(board)
        /\ board' = IF is_some(persisted) THEN unwrap(persisted) ELSE Board_new(n)
        /\ Len(board'.columns) = 3
        /\ is_some(persisted) \/ (board'.name = n /\ AllTasks(board') = <<>>)
        /\ current_board_name' = n
        /\ Storage_get_active_board_name(storage') = n
        /\ available_boards' = Storage_list_boards(storage')
        /\ contains(available_boards', n)
        /\ selected_column' = 0
        /\ input_mode' = "Normal"
        /\ selected_board_index' = None

C6_ValidIndex ==
    is_some(selected_board_index) /\ unwrap(selected_board_index) < Len(available_boards)

\* C6: Enter in the board selector on a valid index with the non-empty name n saves
\* the current board under its name, makes the board in memory the one stored under
\* n, or a fresh three-column board named n when none is stored, and leaves
\* current_board_name = n, n the active board of the storage, available_boards equal
\* to the stored list and containing n, selected_column = 0, mode Normal and no
\* selected_board_index; a board switch with a blank name changes neither the board,
\* the storage, the names nor the selection.
C6_BoardSwitch ==
    [][/\ (SelectingBoardKey_Enter /\ C6_ValidIndex
              /\ trim(At(available_boards, unwrap(selected_board_index))) /= <<>>)
          => C6_Switched(At(available_boards, unwrap(selected_board_index)))
       /\ (CreatingBoardKey_Enter /\ trim(input_buffer) = <<>>)
          => UNCHANGED <<board, current_board_name, storage, available_boards,
                         selected_column, selected_task_index>>]_vars

\* A switch in the board selector has loaded the stored board "!" with its task.
C6_Witness ==
    /\ last_op.op = "switch_to_selected_board"
    /\ current_board_name = <<"!">>
    /\ board.name = <<"!">>
    /\ Len(AllTasks(board)) = 1
    /\ Storage_get_active_board_name(storage) = <<"!">>
    /\ selected_column = 0
    /\ input_mode = "Normal"
    /\ selected_board_index = None

\* What deleting the task at a valid index of the selected column leaves behind.
C7_Deleted ==
    LET i == unwrap(selected_task_index)
        n == Len(selected_tasks)
        after == At(board'.columns, selected_column).tasks
    IN  /\ Len(after) = n - 1
        /\ \A k \in 0..(n - 2) :
              At(after, k) = IF k < i THEN At(selected_tasks, k) ELSE At(selected_tasks, k + 1)
        /\ Len(board'.columns) = Len(board.columns)
        /\ \A c \in 0..(Len(board.columns) - 1) :
              c /= selected_column => At(board'.columns, c) = At(board.columns, c)
        /\ selected_column' = selected_column
        /\ selected_task_index' =
              IF n = 1 THEN None ELSE IF i = n - 1 THEN Some(n - 2) ELSE Some(i)

\* C7: 'd' with a valid selection i in a column of n tasks removes exactly the task
\* at i and keeps the order of the others; the selection becomes None if n = 1,
\* Some(n-2) if i was the last index and stays Some(i) otherwise.  With no selection
\* nothing changes.
C7_DeleteSelectedTask ==
    [][NormalKey_d =>
          IF selection_in_range THEN C7_Deleted
          ELSE (selected_task_index = None => UNCHANGED <<app_vars, storage>>)]_vars

\* The last of three tasks was deleted: the selection went from index 2 to index 1.
C7_Witness ==
    /\ last_op.op = "delete_selected_task"
    /\ selected_column = 0
    /\ board.next_task_id = 4
    /\ Len(selected_tasks) = 2
    /\ At(selected_tasks, 0).id = 1
    /\ At(selected_tasks, 1).id = 2
    /\ selected_task_index = Some(1)

\* What moving the selected task to the adjacent column to_column leaves behind.
C8_Moved(to_column) ==
    LET i == unwrap(selected_task_index)
        target == At(board.columns, to_column).tasks
    IN  /\ At(board'.columns, selected_column).tasks = Vec_remove(selected_tasks, i)
        /\ At(board'.columns, to_column).tasks = Append(target, At(selected_tasks, i))
        /\ Len(board'.columns) = Len(board.columns)
        /\ \A c \in 0..(Len(board.columns) - 1) :
              c \notin {selected_column, to_column} => At(board'.columns, c) = At(board.columns, c)
        /\ selected_column' = to_column
        /\ selected_task_index' = Some(Len(target))

\* C8: 'H' in column 0 and 'L' in the last column change nothing, and neither key
\* changes anything without a selection; otherwise, with a valid selection, the task
\* leaves its column, becomes the last task of the adjacent column, and the column
\* and task selection follow it there.
C8_MoveTask ==
    [][/\ NormalKey_H =>
             IF selected_column = 0 \/ selected_task_index = None
             THEN UNCHANGED <<app_vars, storage>>
             ELSE (selection_in_range => C8_Moved(selected_column - 1))
       /\ NormalKey_L =>
             IF selected_column = Len(board.columns) - 1 \/ selected_task_index = None
             THEN UNCHANGED <<app_vars, storage>>
             ELSE (selection_in_range => C8_Moved(selected_column + 1))]_vars

\* A task was moved right into a column that already held one.
C8_Witness ==
    /\ last_op.op = "move_task_right"
    /\ selected_column = 1
    /\ selected_task_index = Some(1)
    /\ Len(At(board.columns, 0).tasks) = 1
    /\ Len(At(board.columns, 1).tasks) = 2

\* C9: Enter in Creating, Editing, EditingDescription, AddingTag and CreatingBoard
\* mode ends in Normal mode with an empty input_buffer and editing_task_id = None,
\* with an empty or a filled buffer, applied or not.
C9_CommitEndsNormal ==
    [][(CreatingKey_Enter \/ EditingKey_Enter \/ EditingDescriptionKey_Enter
            \/ AddingTagKey_Enter \/ CreatingBoardKey_Enter)
          => (input_mode' = "Normal" /\ input_buffer' = <<>> /\ editing_task_id' = None)]_vars

\* An edited title was committed: only save_edit sets a title other than "x".
C9_Witness ==
    /\ input_mode = "Normal"
    /\ input_buffer = <<>>
    /\ editing_task_id = None
    /\ Len(AllTasks(board)) = 1
    /\ AllTasks(board)[1].title = <<"y">>
    /\ selected_task_index = Some(0)

\* C10: Esc in Creating, Editing, EditingDescription, AddingTag, CreatingBoard and
\* SelectingBoard mode returns to Normal mode and leaves the board, the selection,
\* current_board_name and the storage as they were.
C10_CancelLeavesBoard ==
    [][(CreatingKey_Esc \/ EditingKey_Esc \/ EditingDescriptionKey_Esc \/ AddingTagKey_Esc
            \/ CreatingBoardKey_Esc \/ SelectingBoardKey_Esc)
          => (/\ input_mode' = "Normal"
              /\ UNCHANGED <<board, selected_column, selected_task_index,
                             current_board_name, storage>>)]_vars

\* An edit of the task's title was cancelled.
C10_Witness ==
    /\ last_op.op = "cancel_editing"
    /\ input_mode = "Normal"
    /\ input_buffer = <<>>
    /\ Len(AllTasks(board)) = 1
    /\ AllTasks(board)[1].title = <<"x">>
    /\ selected_task_index = Some(0)

\* The four keys of Normal mode that start work on the selected task.
C11_StartKey == NormalKey_e \/ NormalKey_i \/ NormalKey_D \/ NormalKey_t

\* What the four keys do without a selection, and what 'e' and 'D' do with a task
\* selected.
C11_StartEffects ==
    /\ (C11_StartKey /\ selected_task_index = None)
          => (input_mode' = "Normal" /\ UNCHANGED <<input_buffer, editing_task_id, board>>)
    /\ (NormalKey_e /\ selection_in_range)
          => /\ input_mode' = "Editing"
             /\ input_buffer' = At(selected_tasks, unwrap(selected_task_index)).title
             /\ editing_task_id' = Some(At(selected_tasks, unwrap(selected_task_index)).id)
    /\ (NormalKey_D /\ selection_in_range)
          => /\ input_mode' = "EditingDescription"
             /\ input_buffer' =
                   LET d == At(selected_tasks, unwrap(selected_task_index)).description
                   IN  IF is_some(d) THEN unwrap(d) ELSE <<>>
             /\ editing_task_id' = Some(At(selected_tasks, unwrap(selected_task_index)).id)

\* The part of C11 that holds: the effects above, on every step of the four keys.
C11_StartEffectsHold == [][C11_StartEffects]_vars

\* C11 as claimed: 'e', 'i', 'D' and 't' leave Normal mode only when a task is
\* selected, that is when selected_task_index is an index of a task of the selected
\* column; without a selection they change neither mode, buffer, editing_task_id nor
\* board; with a task selected 'e' and 'D' enter their mode with the buffer filled
\* from the task and editing_task_id set to its id.
C11_StartRequiresTask ==
    [][/\ (C11_StartKey /\ input_mode' /= "Normal") => selection_in_range
       /\ C11_StartEffects]_vars

\* Every column but the selected one is as it was.
OtherColumnsUnchanged ==
    /\ Len(board'.columns) = Len(board.columns)
    /\ \A c \in 0..(Len(board.columns) - 1) :
          c /= selected_column => At(board'.columns, c) = At(board.columns, c)

\* The board in memory is the one stored under current_board_name.
Persisted == Storage_load_board(storage', current_board_name') = Some(board')

\* The tasks of the selected column after the step.
selected_tasks_after == At(board'.columns, selected_column').tasks

\* C12: Enter in Creating mode with a non-empty buffer appends one new task titled
\* with the buffer as the last task of the selected column, changes no other column,
\* selects that last index and stores the board; with an empty buffer the board and
\* the storage stay as they were; the mode becomes Normal in both cases.
C12_CreateTask ==
    [][CreatingKey_Enter =>
          /\ input_mode' = "Normal"
          /\ IF input_buffer /= <<>>
             THEN /\ Len(selected_tasks_after) = Len(selected_tasks) + 1
                  /\ SubSeq(selected_tasks_after, 1, Len(selected_tasks)) = selected_tasks
                  /\ At(selected_tasks_after, Len(selected_tasks)).title = input_buffer
                  /\ At(selected_tasks_after, Len(selected_tasks)).id \notin TaskIdsOn(board)
                  /\ OtherColumnsUnchanged
                  /\ selected_column' = selected_column
                  /\ selected_task_index' = Some(Len(selected_tasks))
                  /\ Persisted
             ELSE UNCHANGED <<board, storage>>]_vars

\* A second task was created in the middle column and is selected.
C12_Witness ==
    /\ last_op.op = "create_task"
    /\ input_mode = "Normal"
    /\ selected_column = 1
    /\ Len(selected_tasks) = 2
    /\ selected_task_index = Some(1)
    /\ At(selected_tasks, 1).id = 2

\* The task a commit of Editing or EditingDescription mode writes to: the selected
\* one, whose id is editing_task_id.
EditedTaskSelected ==
    /\ is_some(editing_task_id)
    /\ selection_in_range
    /\ At(selected_tasks, unwrap(selected_task_index)).id = unwrap(editing_task_id)

\* The selected column keeps its tasks but the selected one, which becomes `task`.
OnlySelectedTaskBecomes(task) ==
    /\ selected_tasks_after = SetAt(selected_tasks, unwrap(selected_task_index), task)
    /\ OtherColumnsUnchanged
    /\ board'.next_task_id = board.next_task_id

\* C13: on every Enter in Editing mode editing_task_id is the id of the selected
\* task; with a non-empty buffer the update finds that task, its title becomes the
\* buffer, nothing else on the board changes and the board is stored; with an empty
\* buffer the board and the storage stay as they were.
C13_SaveEdit ==
    [][EditingKey_Enter =>
          /\ EditedTaskSelected
          /\ IF input_buffer /= <<>>
             THEN /\ is_ok(Board_update_task_title(board, selected_column,
                                                   unwrap(editing_task_id), input_buffer).result)
                  /\ OnlySelectedTaskBecomes(
                         [At(selected_tasks, unwrap(selected_task_index))
                             EXCEPT !.title = input_buffer, !.updated_at = current_timestamp])
                  /\ Persisted
             ELSE UNCHANGED <<board, storage>>]_vars

\* The second of two tasks was renamed to "y".
C13_Witness ==
    /\ last_op.op = "save_edit"
    /\ Len(selected_tasks) = 2
    /\ selected_task_index = Some(1)
    /\ At(selected_tasks, 0).title = <<"x">>
    /\ At(selected_tasks, 1).title = <<"y">>

\* C14: every Enter in EditingDescription mode writes the buffer to the task whose
\* id is editing_task_id and stores the board: a non-empty buffer becomes the
\* description, an empty buffer clears it to None.
C14_SaveDescription ==
    [][EditingDescriptionKey_Enter =>
          /\ EditedTaskSelected
          /\ OnlySelectedTaskBecomes(
                 [At(selected_tasks, unwrap(selected_task_index))
                     EXCEPT !.description = IF input_buffer = <<>> THEN None
                                            ELSE Some(input_buffer),
                            !.updated_at = current_timestamp])
          /\ Persisted]_vars

\* The description "x" was committed for the selected task.
C14_Witness ==
    /\ last_op.op = "save_description"
    /\ input_mode = "Normal"
    /\ Len(AllTasks(board)) = 1
    /\ AllTasks(board)[1].description = Some(<<"x">>)
    /\ selected_task_index = Some(0)

\* What a commit of CreatingBoard mode leaves behind when the new board is named n.
C15_Created(n) ==
    /\ current_board_name' = n
    /\ Storage_get_active_board_name(storage') = n
    /\ contains(available_boards', n)
    /\ Storage_load_board(storage', current_board_name) = Some(board)
    /\ Persisted
    /\ selected_column' = 0
    /\ selected_task_index' = None
    /\ input_mode' = "Normal"

C16_NeverWithoutBoard ==
    /\ [](available_boards /= <<>> /\ contains(available_boards, current_board_name))
    /\ [][(SelectingBoardKey_d /\ Len(available_boards) = 1)
             => UNCHANGED <<app_vars, storage>>]_vars

\* The current board was deleted in the selector; the one board left is current.
C16_Witness ==
    /\ last_op.op = "delete_selected_board"
    /\ input_mode = "SelectingBoard"
    /\ available_boards = <<(<<"!">>)>>
    /\ current_board_name = <<"!">>
    /\ selected_board_index = Some(0)

\* The ids of the tasks of column c of board b, in order.
ColumnIds(b, c) ==
    [k \in 1..Len(At(b.columns, c).tasks) |-> At(b.columns, c).tasks[k].id]

ValidColumns(b) == 0..(Len(b.columns) - 1)

\* C17: on every board the library reaches, move_task with from_column or to_column
\* at or beyond columns.len() returns the column-index-out-of-bounds error and the
\* board it leaves is the board it was called on, whatever the task id.
C17_MoveOutOfBounds ==
    \A from_column \in Columns, to_column \in Columns, task_id \in TaskIds :
        (from_column >= Len(board.columns) \/ to_column >= Len(board.columns))
            => Board_move_task(board, from_column, to_column, task_id)
                  = [board |-> board, result |-> Err("Column index out of bounds")]

\* move_task was just refused for a column index while the first column holds
\* three tasks, each of which a caller can name together with the target column 3.
C17_Witness ==
    /\ last_op.op = "move_task"
    /\ last_op.result = Err("Column index out of bounds")
    /\ ColumnIds(board, 0) = <<1, 2, 3>>
    /\ Board_move_task(board, 0, 3, 2).result = Err("Column index out of bounds")

\* move_task(a, b, id) followed by move_task(b, a, id) on board bd.
RoundTrip(bd, a, b, id) ==
    LET r1 == Board_move_task(bd, a, b, id)
        r2 == Board_move_task(r1.board, b, a, id)
    IN  [first |-> r1, second |-> r2]

\* C18: on every board the library reaches, for valid columns a /= b and a task id
\* of column a, move_task(a, b, id) and then move_task(b, a, id) both return Ok, and
\* afterwards column a holds its other tasks in their order followed by the task,
\* and every other column, b included, is as before the first move.
C18_MoveRoundTrip ==
    \A a \in ValidColumns(board), b \in ValidColumns(board) :
        \A k \in 1..Len(At(board.columns, a).tasks) :
            a /= b =>
                LET task == At(board.columns, a).tasks[k]
                    rt == RoundTrip(board, a, b, task.id)
                IN  /\ is_ok(rt.first.result)
                    /\ is_ok(rt.second.result)
                    /\ At(rt.second.board.columns, a).tasks
                          = Append(Vec_remove(At(board.columns, a).tasks, k - 1), task)
                    /\ \A c \in ValidColumns(board) :
                          c /= a => At(rt.second.board.columns, c) = At(board.columns, c)
                    /\ rt.second.board.next_task_id = board.next_task_id

\* Task 1 was moved out of the first column and back: it now follows tasks 2 and 3.
C18_Witness ==
    /\ last_op.op = "move_task"
    /\ is_ok(last_op.result)
    /\ ColumnIds(board, 0) = <<2, 3, 1>>

\* C19: every name in the metadata boards list has a board file, except the name of
\* the board the App holds in memory, which may have been created and not saved yet.
C19_ListedBoardsHaveFiles ==
    \A k \in 1..Len(Storage_list_boards(storage)) :
        LET name == Storage_list_boards(storage)[k]
        IN  name /= current_board_name => Storage_board_exists(storage, name)

\* C20: right after a successful save_board or set_active_board_name the metadata
\* boards list contains the metadata active_board.
C20_ActiveListedAfterSave ==
    last_op.op \in {"save_board", "set_active_board_name"}
        => contains(Storage_list_boards(storage), Storage_get_active_board_name(storage))

\* C21: on every storage the Storage API reaches, delete_board(name) leaves no file
\* for name and a boards list that is the old one without name, in the old order;
\* when name was the active board the active board becomes the first remaining name,
\* or "default" when none remains; otherwise the active board is unchanged; no
\* other file changes.
C21_DeleteBoard ==
    \A name \in StorageNames :
        LET s2 == Storage_delete_board(storage, name)
            rest == retain_ne(Storage_list_boards(storage), name)
        IN  /\ ~Storage_board_exists(s2, name)
            /\ Storage_list_boards(s2) = rest
            /\ ~contains(Storage_list_boards(s2), name)
            /\ Storage_get_active_board_name(s2) =
                  IF Storage_get_active_board_name(storage) = name
                  THEN (IF rest /= <<>> THEN rest[1] ELSE default_name)
                  ELSE Storage_get_active_board_name(storage)
            /\ \A f \in DOMAIN storage.boards :
                  f /= board_path(name) => /\ f \in DOMAIN s2.boards
                                           /\ s2.boards[f] = storage.boards[f]
            /\ DOMAIN s2.boards \subseteq DOMAIN storage.boards

\* delete_board("default") has just run on the active board "default" while "!"
\* and "-" were listed after it: "!", the first remaining name, is now active.
C21_Witness ==
    /\ last_op.op = "delete_board"
    /\ last_op.result = Ok(default_name)
    /\ Storage_get_active_board_name(storage) = <<"!">>
    /\ Storage_list_boards(storage) = <<(<<"!">>), (<<"-">>)>>
    /\ Storage_board_exists(storage, <<"!">>)
    /\ ~Storage_board_exists(storage, default_name)

\* How many times x occurs in the Vec v.
Occurrences(v, x) == Cardinality({k \in 1..Len(v) : v[k] = x})

C23_NeverPanics == running

\* While the file system fails, Enter in Creating mode with a title still adds
\* the task in memory and returns to Normal mode; the files stay as they were
\* and the process keeps running.
C23_FailedSaveKeepsMutation ==
    [][(io_fails /\ CreatingKey_Enter /\ input_buffer /= <<>>)
          => /\ Len(selected_tasks_after) = Len(selected_tasks) + 1
             /\ input_mode' = "Normal"
             /\ storage' = storage
             /\ running']_vars

\* Storage::new finds a board.json and no metadata.json.
Migrates(s) == is_some(s.legacy) /\ ~is_some(s.metadata)

\* C24: every Storage::new leaves a metadata file; it moves board.json to
\* boards/default.json and writes the default metadata exactly when board.json
\* exists and metadata.json does not, and otherwise leaves board.json and the board
\* files as they are, and the metadata too when it exists; a second Storage::new
\* right after changes nothing; and no Storage call removes the metadata file, so
\* no later Storage::new migrates.
C24_MigratesAtMostOnce ==
    /\ [][Call_Storage_new =>
            /\ is_some(storage'.metadata)
            /\ Migrates(storage) =>
                  /\ storage'.legacy = None
                  /\ storage'.boards = write_file(storage.boards, board_path(default_name),
                                                  unwrap(storage.legacy))
                  /\ storage'.metadata = Some(Metadata_default)
            /\ ~Migrates(storage) =>
                  /\ storage'.legacy = storage.legacy
                  /\ storage'.boards = storage.boards
                  /\ is_some(storage.metadata) => storage' = storage
            /\ ~Migrates(storage')
            /\ Storage_new(storage') = storage']_vars
    /\ [][is_some(storage.metadata) => is_some(storage'.metadata)]_vars

\* Storage::new has just migrated a board.json holding one task: it is now the
\* default board, board.json is gone and the default metadata is written.
C24_Witness ==
    /\ last_op.op = "Storage_new"
    /\ storage.legacy = None
    /\ storage.metadata = Some(Metadata_default)
    /\ Storage_load_board(storage, default_name)
          = Some(Board_add_task(Board_new(default_name), 0, <<"x">>).board)

\* The column after c, and the column before c, with wrap-around.
ColumnAfter(c) == IF c = Len(board.columns) - 1 THEN 0 ELSE c + 1

ColumnBefore(c) == IF c = 0 THEN Len(board.columns) - 1 ELSE c - 1

RECURSIVE ColumnAfterTimes(_, _)
ColumnAfterTimes(c, k) == IF k = 0 THEN c ELSE ColumnAfter(ColumnAfterTimes(c, k - 1))

RECURSIVE ColumnBeforeTimes(_, _)
ColumnBeforeTimes(c, k) == IF k = 0 THEN c ELSE ColumnBefore(ColumnBeforeTimes(c, k - 1))

\* What both column keys do besides choosing the column: the first task of the
\* new column is selected, or nothing when it is empty; the board, the mode and
\* the files are untouched.
ColumnReselected ==
    /\ selected_task_index' = IF selected_tasks_after /= <<>> THEN Some(0) ELSE None
    /\ UNCHANGED <<board, storage, input_mode, input_buffer, editing_task_id,
                   current_board_name, available_boards, selected_board_index>>

\* C25: 'l' selects the column after the selected one and 'h' the column before,
\* both with wrap-around, so each undoes the other and columns.len() presses of
\* one key lead back to the column they started from; both select the first task
\* of the new column, or no task when it is empty, and leave board and files alone.
C25_ColumnNavigation ==
    [][/\ NormalKey_l =>
            /\ selected_column' = ColumnAfter(selected_column)
            /\ ColumnBefore(selected_column') = selected_column
            /\ ColumnAfterTimes(selected_column, Len(board.columns)) = selected_column
            /\ ColumnReselected
       /\ NormalKey_h =>
            /\ selected_column' = ColumnBefore(selected_column)
            /\ ColumnAfter(selected_column') = selected_column
            /\ ColumnBeforeTimes(selected_column, Len(board.columns)) = selected_column
            /\ ColumnReselected]_vars

\* 'h' has just wrapped from the first column to the last one, which is empty
\* while the first column holds a task: no task is selected.
C25_Witness ==
    /\ last_op.op = "previous_column"
    /\ selected_column = Len(board.columns) - 1
    /\ selected_tasks = <<>>
    /\ At(board.columns, 0).tasks /= <<>>
    /\ selected_task_index = None

\* C26: in a column of n > 0 tasks, 'j' and 'k' leave a task of the column selected.
C26_TaskNavigationInRange ==
    [][((NormalKey_j \/ NormalKey_k) /\ selected_tasks /= <<>>)
          => /\ is_some(selected_task_index')
             /\ unwrap(selected_task_index') < Len(selected_tasks)]_vars

\* The other parts of C26: with no task in the column 'j' and 'k' change nothing;
\* from None both select index 0; 'j' maps i to (i + 1) mod n and 'k' maps i to
\* i - 1, and 0 to n - 1; when i < n the new index is below n; neither changes the
\* board, the files or another field.
C26_TaskNavigationSteps ==
    [][(NormalKey_j \/ NormalKey_k) =>
          LET n == Len(selected_tasks)
              i == unwrap(selected_task_index)
          IN  /\ UNCHANGED <<board, storage, selected_column, input_mode, input_buffer,
                             editing_task_id, current_board_name, available_boards,
                             selected_board_index>>
              /\ n = 0 => UNCHANGED selected_task_index
              /\ (n > 0 /\ selected_task_index = None) => selected_task_index' = Some(0)
              /\ (n > 0 /\ is_some(selected_task_index) /\ NormalKey_j)
                    => selected_task_index' = Some((i + 1) % n)
              /\ (n > 0 /\ is_some(selected_task_index) /\ NormalKey_k)
                    => selected_task_index' = Some(IF i = 0 THEN n - 1 ELSE i - 1)
              /\ (n > 0 /\ selection_in_range)
                    => unwrap(selected_task_index') < n]_vars

\* cycle_priority applied k times to task t.
RECURSIVE CyclePriorityTimes(_, _)
CyclePriorityTimes(t, k) ==
    IF k = 0 THEN t ELSE Task_cycle_priority(CyclePriorityTimes(t, k - 1))

\* The order of the cycle: None, Low, Medium, High, and None again.
CycleOrder == <<PriorityNone, Low, Medium, High, PriorityNone>>

\* C27: for every task of every board the field calls reach, one cycle_priority
\* gives the priority that follows the task's in None, Low, Medium, High, None, which
\* differs from it, and four of them give the task's priority back.
C27_PriorityCycle ==
    \A k \in 1..Len(AllTasks(board)) :
        LET t == AllTasks(board)[k]
        IN  /\ \E i \in 1..4 : /\ CycleOrder[i] = t.priority
                               /\ Task_cycle_priority(t).priority = CycleOrder[i + 1]
            /\ Task_cycle_priority(t).priority /= t.priority
            /\ CyclePriorityTimes(t, 4).priority = t.priority
            /\ \A n \in 1..3 : CyclePriorityTimes(t, n).priority /= t.priority

\* cycle_task_priority has just succeeded and task 1 is at High: it was cycled
\* three times, and the next call leads back to None.
C27_Witness ==
    /\ last_op.op = "cycle_task_priority"
    /\ is_ok(last_op.result)
    /\ \E k \in 1..Len(AllTasks(board)) :
          AllTasks(board)[k].id = 1 /\ AllTasks(board)[k].priority = High

\* C28: for every task of every reachable board and every tag, add_tag leaves the
\* tags list as it is when the tag is present or empty and appends the tag at the
\* end otherwise; a second add_tag of the same tag changes nothing; and the tags
\* list of the task holds no tag twice and no empty tag.
C28_TagsUnique ==
    \A k \in 1..Len(AllTasks(board)) :
        LET t == AllTasks(board)[k]
        IN  /\ \A tag \in Tags :
                  LET t2 == Task_add_tag(t, tag)
                  IN  /\ (contains(t.tags, tag) \/ tag = <<>>) => t2 = t
                      /\ ~(contains(t.tags, tag) \/ tag = <<>>)
                            => t2.tags = Append(t.tags, tag)
                      /\ Task_add_tag(t2, tag) = t2
            /\ \A i \in 1..Len(t.tags) : /\ t.tags[i] /= <<>>
                                         /\ Occurrences(t.tags, t.tags[i]) = 1

\* add_task_tag has just succeeded on a task tagged "y" then "x": "x" stands at
\* the end, and adding either again is a duplicate insertion.
C28_Witness ==
    /\ last_op.op = "add_task_tag"
    /\ is_ok(last_op.result)
    /\ \E k \in 1..Len(AllTasks(board)) : AllTasks(board)[k].tags = <<(<<"y">>), (<<"x">>)>>

\* C29: editing_task_id is Some exactly in the modes Editing and EditingDescription,
\* and there it is the id of the task at selected_task_index in the selected column.
C29_EditingTaskId ==
    /\ is_some(editing_task_id) <=> input_mode \in {"Editing", "EditingDescription"}
    /\ is_some(editing_task_id) =>
          /\ selection_in_range
          /\ unwrap(editing_task_id) = At(selected_tasks, unwrap(selected_task_index)).id

\* The description of the second task of a column is being edited: editing_task_id
\* is that task's id, 2, not the id of the first task.
C29_Witness ==
    /\ input_mode = "EditingDescription"
    /\ selected_task_index = Some(1)
    /\ Len(selected_tasks) = 2
    /\ At(selected_tasks, 1).id = 2
    /\ editing_task_id = Some(2)

\* What the five per-task Board methods return for (column_index, task_id) on the
\* board, over all the other arguments.
FieldCallResults(column_index, task_id) ==
    {Board_update_task_title(board, column_index, task_id, t) : t \in NewTitles}
    \cup {Board_update_task_description(board, column_index, task_id, d) : d \in Descriptions}
    \cup {Board_cycle_task_priority(board, column_index, task_id)}
    \cup {Board_add_task_tag(board, column_index, task_id, tag) : tag \in Tags}
    \cup {Board_set_task_due_date(board, column_index, task_id, d) : d \in DueDates}

\* Board b2 differs from the board at most in the task at place pos of column c,
\* which keeps its id.
OnlyTaskChanged(b2, c, pos) ==
    /\ b2.name = board.name
    /\ b2.next_task_id = board.next_task_id
    /\ Len(b2.columns) = Len(board.columns)
    /\ \A c2 \in ValidColumns(board) :
          /\ At(b2.columns, c2).name = At(board.columns, c2).name
          /\ Len(At(b2.columns, c2).tasks) = Len(At(board.columns, c2).tasks)
          /\ \A p \in 0..(Len(At(board.columns, c2).tasks) - 1) :
                IF c2 = c /\ p = pos
                THEN Board_task_at(b2, c2, p).id = Board_task_at(board, c2, p).id
                ELSE Board_task_at(b2, c2, p) = Board_task_at(board, c2, p)

\* C30: on every reachable board, for every column index and task id, each of
\* update_task_title, update_task_description, cycle_task_priority, add_task_tag and
\* set_task_due_date returns the out-of-bounds error and the same board when the
\* index is beyond the columns, the task-not-found error and the same board when
\* the id is not in that column, wherever else it may be, and otherwise Ok and a
\* board that differs at most in that task.
C30_FieldCallsByColumn ==
    \A column_index \in Columns, task_id \in FieldTaskIds :
        \A r \in FieldCallResults(column_index, task_id) :
            IF column_index >= Len(board.columns)
            THEN r = [board |-> board, result |-> Err("Column index out of bounds")]
            ELSE LET pos == position_id(At(board.columns, column_index).tasks, task_id)
                 IN  IF ~is_some(pos)
                     THEN r = [board |-> board, result |-> Err("Task not found in column")]
                     ELSE /\ r.result = Ok(<<>>)
                          /\ OnlyTaskChanged(r.board, column_index, unwrap(pos))

\* A field call has just been refused with the task-not-found error while task 1
\* is in the second column and task 2 in the first: each id is absent from the
\* column of the other.
C30_Witness ==
    /\ last_op.op \in {"update_task_title", "update_task_description",
                       "cycle_task_priority", "add_task_tag", "set_task_due_date"}
    /\ last_op.result = Err("Task not found in column")
    /\ ColumnIds(board, 0) = <<2>>
    /\ ColumnIds(board, 1) = <<1>>

\* C31: on every board the library reaches, move_task(c, c, id) with a valid column c
\* holding the task returns Ok and leaves column c as its other tasks in their order
\* followed by the task, every other column and next_task_id as they were; and
\* move_task with valid columns and an id that from_column does not hold, whether or
\* not another column holds it, returns the task-not-found error and the board it was
\* called on.
C31_MoveWithinColumn ==
    /\ \A c \in ValidColumns(board) :
          \A k \in 1..Len(At(board.columns, c).tasks) :
              LET task == At(board.columns, c).tasks[k]
                  r == Board_move_task(board, c, c, task.id)
              IN  /\ r.result = Ok(<<>>)
                  /\ At(r.board.columns, c).tasks
                        = Append(Vec_remove(At(board.columns, c).tasks, k - 1), task)
                  /\ At(r.board.columns, c).name = At(board.columns, c).name
                  /\ Len(r.board.columns) = Len(board.columns)
                  /\ \A d \in ValidColumns(board) :
                        d /= c => At(r.board.columns, d) = At(board.columns, d)
                  /\ r.board.next_task_id = board.next_task_id
                  /\ r.board.name = board.name
    /\ \A from_column \in ValidColumns(board), to_column \in ValidColumns(board) :
          \A task_id \in TaskIds :
              (\A k \in 1..Len(At(board.columns, from_column).tasks) :
                    At(board.columns, from_column).tasks[k].id /= task_id)
                  => Board_move_task(board, from_column, to_column, task_id)
                        = [board |-> board, result |-> Err("Task not found in source column")]

\* A move has just succeeded and the first column holds 1, 3, 2: moving task 3 within
\* the column puts it last, and task 2 is asked of the second column, which lacks it.
C31_Witness ==
    /\ last_op.op = "move_task"
    /\ is_ok(last_op.result)
    /\ ColumnIds(board, 0) = <<1, 3, 2>>
    /\ ColumnIds(Board_move_task(board, 0, 0, 3).board, 0) = <<1, 2, 3>>
    /\ Board_move_task(board, 1, 0, 2).result = Err("Task not found in source column")

\* Tasks t1 and t2 agree on every field but `field` and the update time.
TaskSameBut(t1, t2, field) ==
    [t2 EXCEPT ![field] = t1[field], !.updated_at = t1.updated_at] = t1

\* The id of the selected task, when the selection names a task of the column.
SelectedTaskId ==
    IF selection_in_range THEN Some(At(selected_tasks, unwrap(selected_task_index)).id)
    ELSE None

\* The step keeps the selection, next_task_id, the columns and the ids at every
\* place of every column; a task that changed is the one with id `target` in the
\* selected column, and it changed in `field` and updated_at only.
OnlyFieldOfTarget(target, field) ==
    /\ UNCHANGED <<selected_column, selected_task_index>>
    /\ board'.next_task_id = board.next_task_id
    /\ board'.name = board.name
    /\ Len(board'.columns) = Len(board.columns)
    /\ \A c \in ValidColumns(board) :
          /\ At(board'.columns, c).name = At(board.columns, c).name
          /\ Len(At(board'.columns, c).tasks) = Len(At(board.columns, c).tasks)
          /\ \A k \in 1..Len(At(board.columns, c).tasks) :
                LET t1 == At(board.columns, c).tasks[k]
                    t2 == At(board'.columns, c).tasks[k]
                IN  \/ t2 = t1
                    \/ /\ c = selected_column
                       /\ is_some(target)
                       /\ t1.id = unwrap(target)
                       /\ TaskSameBut(t1, t2, field)

\* C32: Enter in Editing, EditingDescription and AddingTag mode and 'p' in Normal
\* mode keep the selection, next_task_id and the order of the tasks of every column,
\* and change at most one task, the targeted one, in its title, description, tags
\* or priority respectively and its update time; 'p' without a selection changes
\* nothing at all.
C32_EditsTouchOneField ==
    [][/\ EditingKey_Enter => OnlyFieldOfTarget(editing_task_id, "title")
       /\ EditingDescriptionKey_Enter => OnlyFieldOfTarget(editing_task_id, "description")
       /\ NormalKey_p => OnlyFieldOfTarget(SelectedTaskId, "priority")
       /\ AddingTagKey_Enter => OnlyFieldOfTarget(SelectedTaskId, "tags")
       /\ (NormalKey_p /\ ~is_some(selected_task_index))
             => UNCHANGED <<app_vars, storage>>]_vars

\* 'p' was pressed on the second of two tasks of a column: it alone has priority Low.
C32_Witness ==
    /\ last_op.op = "cycle_priority"
    /\ Len(selected_tasks) = 2
    /\ selected_task_index = Some(1)
    /\ At(selected_tasks, 0).priority = PriorityNone
    /\ At(selected_tasks, 1).priority = Low

\* C33: a call of handle_char_input(c) leaves input_buffer with c appended in the
\* modes Creating, Editing, EditingDescription, AddingTag and CreatingBoard and as it
\* was in Normal, Viewing and SelectingBoard; a call of handle_backspace leaves it
\* without its last character in the five modes (empty when it was empty) and as it
\* was in the other three; neither changes the board or the mode.
C33_TextInput ==
    [][/\ \A c \in Chars :
             Call_handle_char_input(c) =>
                /\ input_buffer' = IF input_mode \in {"Normal", "Viewing", "SelectingBoard"}
                                   THEN input_buffer
                                   ELSE input_buffer \o <<c>>
                /\ UNCHANGED <<board, input_mode>>
       /\ Call_handle_backspace =>
             /\ input_buffer' = IF input_mode \in {"Normal", "Viewing", "SelectingBoard"}
                                   \/ input_buffer = <<>>
                                THEN input_buffer
                                ELSE SubSeq(input_buffer, 1, Len(input_buffer) - 1)
             /\ UNCHANGED <<board, input_mode>>]_vars

\* handle_char_input was called while a task was being viewed: the buffer is empty.
C33_Witness ==
    /\ last_op.op = "handle_char_input"
    /\ input_mode = "Viewing"
    /\ input_buffer = <<>>
    /\ selected_tasks /= <<>>

\* selected_board_index is None or names an entry of available_boards.
BoardIndexValid(index, boards) == ~is_some(index) \/ unwrap(index) < Len(boards)

\* C34: in SelectingBoard mode selected_board_index is None or a valid index of
\* available_boards.  'b' sets it to the position of current_board_name in the list,
\* 'j' and 'k' move it by one modulo the length of the list (None becomes 0), and
\* after a 'd' that removed a board it is still below the new length of the list.
C34_BoardIndexValid ==
    /\ [](SelectingBoard => BoardIndexValid(selected_board_index, available_boards))
    /\ [][/\ NormalKey_b =>
                /\ input_mode' = "SelectingBoard"
                /\ IF contains(available_boards, current_board_name)
                   THEN /\ is_some(selected_board_index')
                        /\ At(available_boards, unwrap(selected_board_index'))
                              = current_board_name
                   ELSE selected_board_index' = None
          /\ SelectingBoardKey_j =>
                selected_board_index' =
                    IF is_some(selected_board_index)
                    THEN Some((unwrap(selected_board_index) + 1) % Len(available_boards))
                    ELSE Some(0)
          /\ SelectingBoardKey_k =>
                selected_board_index' =
                    IF is_some(selected_board_index)
                    THEN Some((unwrap(selected_board_index) + Len(available_boards) - 1)
                                 % Len(available_boards))
                    ELSE Some(0)
          /\ (SelectingBoardKey_d /\ available_boards' /= available_boards) =>
                /\ Len(available_boards') = Len(available_boards) - 1
                /\ is_some(selected_board_index')
                /\ unwrap(selected_board_index') < Len(available_boards')]_vars

\* 'd' in the selector has left two of three boards, the second of them selected.
C34_Witness ==
    /\ last_op.op = "delete_selected_board"
    /\ SelectingBoard
    /\ Len(available_boards) = 2
    /\ selected_board_index = Some(1)

TextModeLeft ==
    \/ CreatingKey_Enter \/ CreatingKey_Esc
    \/ EditingKey_Enter \/ EditingKey_Esc
    \/ EditingDescriptionKey_Enter \/ EditingDescriptionKey_Esc
    \/ AddingTagKey_Enter \/ AddingTagKey_Esc
    \/ CreatingBoardKey_Enter \/ CreatingBoardKey_Esc

C36_ModeHasTask ==
    input_mode \in {"Viewing", "AddingTag", "Editing", "EditingDescription"}
        => selection_in_range

\* The part of C36 that start_editing and start_editing_description guard with
\* tasks.get(idx): Editing and EditingDescription mode have their task.
C36_EditingHasTask ==
    input_mode \in {"Editing", "EditingDescription"} => selection_in_range

\* C37: current_board_name is the active_board of the metadata, and load_board of
\* that name returns the board the App holds in memory.
C37_AppMatchesStorage ==
    /\ current_board_name = Storage_get_active_board_name(storage)
    /\ Storage_load_board(storage, current_board_name) = Some(board)

\* The first half of C37 alone: the App and the metadata name the same board.
C37_ActiveNameMatches == current_board_name = Storage_get_active_board_name(storage)

\* The board names a user can switch to: the listed ones and the ones typed at the
\* board-name prompt.
SwitchTargets ==
    {available_boards[k] : k \in 1..Len(available_boards)}
        \cup {trim(t) : t \in env.texts["CreatingBoard"]}

\* create_task with title "x" on the App whose fields are `a`.
TaskCreatedOn(a) ==
    LET r == Board_add_task(a.board, a.selected_column, <<"x">>)
    IN  [a EXCEPT !.board = r.board,
                  !.storage = App_save(a.storage, a.current_board_name, r.board)]

\* C38: boards are isolated from each other: from every reachable state, whose
\* current board is named A, and for every other name B a user can switch to,
\* switching to B, creating a task there and switching back to A yields A's board
\* as it was in memory at the first switch.
C38_SwitchRoundTrip ==
    \A B \in SwitchTargets :
        (B /= current_board_name /\ B /= <<>>) =>
            LET a1 == switch_board_of(switch_board_fields, B)
                a2 == TaskCreatedOn(a1)
                a3 == switch_board_of(a2, current_board_name)
            IN  /\ a3.current_board_name = current_board_name
                /\ a3.board = board

\* C38, stated over the steps of a run (deletions of a board included): a step
\* leaves the stored board of every listed name other than the board it starts on
\* and the board it ends on as it was; a step that changes current_board_name stores
\* the board it leaves under its name (unless that board was deleted) and brings
\* the board stored under the new name into memory.  So what is done on board B
\* between a switch from A to B and the switch back never shows on A.
C38_BoardsIsolated ==
    [][/\ \A k \in 1..Len(Storage_list_boards(storage)) :
             LET n == Storage_list_boards(storage)[k]
             IN  (/\ n /= current_board_name
                  /\ n /= current_board_name'
                  /\ contains(Storage_list_boards(storage'), n))
                    => Storage_load_board(storage', n) = Storage_load_board(storage, n)
       /\ current_board_name' /= current_board_name =>
             /\ is_some(Storage_load_board(storage, current_board_name'))
                   => board' = unwrap(Storage_load_board(storage, current_board_name'))
             /\ contains(Storage_list_boards(storage'), current_board_name)
                   => Storage_load_board(storage', current_board_name) = Some(board)]_vars

\* The tasks of board b, as a set.
TasksOn(b) == {AllTasks(b)[k] : k \in 1..Len(AllTasks(b))}

\* The key events of navigation, mode changes, text input, edits, priority cycling
\* and tagging.
NonStructuralKey ==
    \/ NormalKey_n \/ NormalKey_e \/ NormalKey_i \/ NormalKey_p \/ NormalKey_D \/ NormalKey_t
    \/ NormalKey_b \/ NormalKey_B \/ NormalKey_h \/ NormalKey_l \/ NormalKey_j \/ NormalKey_k
    \/ CreatingKey_Esc \/ EditingKey_Enter \/ EditingKey_Esc \/ ViewingKey_Esc
    \/ EditingDescriptionKey_Enter \/ EditingDescriptionKey_Esc
    \/ AddingTagKey_Enter \/ AddingTagKey_Esc
    \/ TextKey_Char \/ TextKey_Backspace
    \/ SelectingBoardKey_Esc \/ SelectingBoardKey_j \/ SelectingBoardKey_k
    \/ SelectingBoardKey_n \/ CreatingBoardKey_Esc

\* The step keeps the ids on the board and the number of tasks.
SameTaskIds ==
    /\ TaskIdsOn(board') = TaskIdsOn(board)
    /\ Len(AllTasks(board')) = Len(AllTasks(board))

\* C39: Enter in Creating mode adds exactly one id, a new one, to the ids on the
\* board, or none with an empty buffer; 'd' in Normal mode removes exactly the id of
\* the selected task, or none without a selected task; the keys of navigation, mode
\* changes, text input, edits, priority cycling and tagging keep the set of ids and
\* the number of tasks; 'H' and 'L' keep them too and keep every task as it is, so
\* that no task is duplicated or lost by a move.
C39_TaskIdsChange ==
    [][/\ CreatingKey_Enter =>
             IF input_buffer = <<>> THEN SameTaskIds
             ELSE /\ \E id \in TaskIdsOn(board') \ TaskIdsOn(board) :
                        TaskIdsOn(board') = TaskIdsOn(board) \cup {id}
                  /\ Len(AllTasks(board')) = Len(AllTasks(board)) + 1
       /\ NormalKey_d =>
             IF selection_in_range
             THEN /\ TaskIdsOn(board')
                        = TaskIdsOn(board) \ {At(selected_tasks, unwrap(selected_task_index)).id}
                  /\ Len(AllTasks(board')) = Len(AllTasks(board)) - 1
             ELSE SameTaskIds
       /\ NonStructuralKey => SameTaskIds
       /\ (NormalKey_H \/ NormalKey_L) =>
             /\ SameTaskIds
             /\ TasksOn(board') = TasksOn(board)
             /\ Cardinality(TaskIdsOn(board')) = Len(AllTasks(board'))]_vars

\* 'L' has moved a task: the board holds three tasks, one of them in the second
\* column.
C39_Witness ==
    /\ last_op.op = "move_task_right"
    /\ Len(AllTasks(board)) = 3
    /\ Cardinality(TaskIdsOn(board)) = 3
    /\ Len(At(board.columns, 1).tasks) = 1

\* The tasks the board file of `name` holds on disk s, column by column.
StoredColumns(s, name) == s.boards[board_path(name)].columns

\* C40: an Enter in CreatingBoard mode or in the board selector, which ends on the
\* board named current_board_name', leaves a board file that existed under that name
\* in place with the tasks it held, whether or not the file can be read; when that
\* file is the one of the board the step starts on, it may instead hold the tasks
\* of the board in memory, which the switch saves first.
C40_SwitchKeepsStoredTasks ==
    [][((CreatingBoardKey_Enter \/ SelectingBoardKey_Enter)
           /\ board_path(current_board_name') \in DOMAIN storage.boards)
          => /\ board_path(current_board_name') \in DOMAIN storage'.boards
             /\ \/ StoredColumns(storage', current_board_name')
                      = StoredColumns(storage, current_board_name')
                \/ /\ board_path(current_board_name') = board_path(current_board_name)
                   /\ StoredColumns(storage', current_board_name')
                         = board_to_json(board).columns]_vars

====
